---- MODULE Spec2Model ----
(***************************************************************************)
(* A model of the NFL play-by-play persistence layer: the derivation of    *)
(* per-play context (src/src/database/db_utils.py) and the transactional   *)
(* save of a game into the games / plays / players tables                  *)
(* (src/src/database/database.py).                                         *)
(*                                                                         *)
(* Conventions                                                             *)
(*   - Python None is the empty tuple None; a present value x is Some(x).  *)
(*   - A Python str is a tuple of one-character strings, so that split,    *)
(*     int(), lower(), "in" and re.search are computed, not assumed.       *)
(*   - A float score that the code builds from multiples of 0.1 is kept in *)
(*     tenths (an integer).                                                *)
(***************************************************************************)
EXTENDS Integers, Sequences, FiniteSets, TLC

None == <<>>
Some(x) == <<x>>
IsNone(o) == o = <<>>
Val(o) == o[1]

(***************************************************************************)
(* Text primitives                                                         *)
(***************************************************************************)
Digits == <<"0", "1", "2", "3", "4", "5", "6", "7", "8", "9">>

IsDigit(c) == \E d \in 1..10 : Digits[d] = c

DigitVal(c) == (CHOOSE d \in 1..10 : Digits[d] = c) - 1

IsSpace(c) == c = " "

\* str.lower() on one character (the letters that occur in the modelled texts)
UpperCase ==
  <<"A", "B", "C", "D", "E", "F", "G", "H", "I", "J", "K", "L", "M",
    "N", "O", "P", "Q", "R", "S", "T", "U", "V", "W", "X", "Y", "Z">>

LowerCase ==
  <<"a", "b", "c", "d", "e", "f", "g", "h", "i", "j", "k", "l", "m",
    "n", "o", "p", "q", "r", "s", "t", "u", "v", "w", "x", "y", "z">>

LowerChar(c) ==
  IF \E i \in 1..26 : UpperCase[i] = c
  THEN LowerCase[CHOOSE i \in 1..26 : UpperCase[i] = c]
  ELSE c

lower(s) == [i \in 1..Len(s) |-> LowerChar(s[i])]

\* w occurs in s at position i
OccursAt(s, w, i) ==
  /\ i + Len(w) - 1 <= Len(s)
  /\ \A j \in 1..Len(w) : s[i + j - 1] = w[j]

\* Python's  w in s
Contains(s, w) == \E i \in 1..(Len(s) + 1) : OccursAt(s, w, i)

\* value of the decimal digits s[i..j]
RECURSIVE DigitsValue(_, _, _)
DigitsValue(s, i, j) ==
  IF j < i THEN 0 ELSE 10 * DigitsValue(s, i, j - 1) + DigitVal(s[j])

\* int(s): Some(n), or None where Python raises ValueError
ParseDigits(s, first, negative) ==
  IF first > Len(s) \/ \E i \in first..Len(s) : ~IsDigit(s[i])
  THEN None
  ELSE Some(IF negative THEN 0 - DigitsValue(s, first, Len(s))
            ELSE DigitsValue(s, first, Len(s)))

ParseInt(s) ==
  IF Len(s) > 0 /\ s[1] \in {"-", "+"}
  THEN ParseDigits(s, 2, s[1] = "-")
  ELSE ParseDigits(s, 1, FALSE)

\* s.split(sep) for a one-character separator
RECURSIVE Split(_, _)
Split(s, sep) ==
  IF \A i \in 1..Len(s) : s[i] # sep
  THEN <<s>>
  ELSE LET k == CHOOSE i \in 1..Len(s) :
                  s[i] = sep /\ \A j \in 1..(i - 1) : s[j] # sep
       IN  <<SubSeq(s, 1, k - 1)>> \o Split(SubSeq(s, k + 1, Len(s)), sep)

\* end of the maximal digit run that starts at i
RECURSIVE RunEnd(_, _)
RunEnd(s, i) ==
  IF i < Len(s) /\ IsDigit(s[i + 1]) THEN RunEnd(s, i + 1) ELSE i

\* first position at or after i that is not white space
RECURSIVE SkipSpace(_, _)
SkipSpace(s, i) ==
  IF i <= Len(s) /\ IsSpace(s[i]) THEN SkipSpace(s, i + 1) ELSE i

\* start positions of the maximal digit runs of s
RunStarts(s) ==
  {i \in 1..Len(s) : IsDigit(s[i]) /\ (i = 1 \/ ~IsDigit(s[i - 1]))}

Least(S) == CHOOSE x \in S : \A y \in S : x <= y

\* int(group(1)) of the leftmost match among the digit runs starting in
\* hits, or None without a match
FirstRunValue(s, hits) ==
  IF hits = {} THEN None
  ELSE Some(DigitsValue(s, Least(hits), RunEnd(s, Least(hits))))

\* re.search(r'(\d+)\s*mph', s)
SearchMph(s) ==
  FirstRunValue(s, {i \in RunStarts(s) :
     OccursAt(s, <<"m", "p", "h">>, SkipSpace(s, RunEnd(s, i) + 1))})

\* re.search(r'(\d+)\s*°?f?', s)
SearchTemp(s) == FirstRunValue(s, RunStarts(s))

(***************************************************************************)
(* Input records (src/models.py)                                           *)
(*   Play        [play_id, sequence, quarter, game_clock,                  *)
(*                possession_team_id, home_team_id, summary]               *)
(*   PlaySummary [play, home_is_offense, home, away]                       *)
(*   PlayDetails [quarter, game_clock, home_score, visitor_score,          *)
(*                absolute_yardline_number, time_of_day_utc, is_scoring,   *)
(*                is_change_of_possession, home_timeouts_left,             *)
(*                visitor_timeouts_left]                                   *)
(*   Player      [nfl_id, gsis_id, position, position_group, team_id]      *)
(* time_of_day_utc is [iso, epoch]: iso says whether                       *)
(* datetime.fromisoformat accepts the text, epoch is the instant it names. *)
(***************************************************************************)

\* game_plays[i] with Python's 0-based index
At(game_plays, i) == game_plays[i + 1]

\* "play.summary and play.summary.play" (PlaySummary.play is a required field)
HasSummary(play) == ~IsNone(play.summary)

Details(play) == Val(play.summary).play

\* datetime.fromisoformat(text.replace('Z', '+00:00')): None where it raises
fromisoformat(text) == IF text.iso THEN Some(text.epoch) ELSE None

Abs(n) == IF n < 0 THEN 0 - n ELSE n
Min(a, b) == IF a <= b THEN a ELSE b
Max(a, b) == IF a >= b THEN a ELSE b

(***************************************************************************)
(* _calculate_time_remaining                                               *)
(***************************************************************************)
\* a default that reports no time left on the clock
ZeroTimeRemaining ==
  [time_remaining_half |-> Some(0),
   time_remaining_game |-> Some(0),
   is_two_minute_drill |-> TRUE]

NoTimeRemaining ==
  [time_remaining_half |-> None,
   time_remaining_game |-> None,
   is_two_minute_drill |-> FALSE]

\* the clock of the quarter taken for the rest of the half
QuarterClock(quarter, clock_seconds) == clock_seconds

TimeRemainingHalf(quarter, clock_seconds) ==
  IF quarter \in {1, 3} THEN clock_seconds + 900 ELSE clock_seconds

TimeRemainingGame(quarter, clock_seconds) ==
  CASE quarter = 1 -> clock_seconds + 2700
    [] quarter = 2 -> clock_seconds + 1800
    [] quarter = 3 -> clock_seconds + 900
    [] OTHER       -> clock_seconds

TimeRemaining(quarter, clock_seconds) ==
  [time_remaining_half |-> Some(TimeRemainingHalf(quarter, clock_seconds)),
   time_remaining_game |-> Some(TimeRemainingGame(quarter, clock_seconds)),
   is_two_minute_drill |-> TimeRemainingHalf(quarter, clock_seconds) <= 120]

\* minutes = int(parts[0]); seconds = int(parts[1]) inside try / except
ClockSeconds(minutes, seconds) ==
  IF IsNone(minutes) \/ IsNone(seconds) THEN None
  ELSE Some(Val(minutes) * 60 + Val(seconds))

ParseClock(parts) ==
  IF Len(parts) < 2 THEN None
  ELSE ClockSeconds(ParseInt(parts[1]), ParseInt(parts[2]))

TimeRemainingOf(quarter, clock_seconds) ==
  IF IsNone(clock_seconds) THEN NoTimeRemaining
  ELSE TimeRemaining(quarter, Val(clock_seconds))

calculate_time_remaining(quarter, game_clock) ==
  IF game_clock = <<>> \/ quarter = 0 THEN NoTimeRemaining
  ELSE TimeRemainingOf(quarter, ParseClock(Split(game_clock, ":")))

(***************************************************************************)
(* _calculate_weather_impact. game_info is a record; hasattr(game_info,    *)
(* 'venue') is "venue" \in DOMAIN game_info. Scores are in tenths.         *)
(***************************************************************************)
IndoorRoofTypes == {"DOME", "RETRACTABLE_CLOSED", "INDOOR"}

WindSpeedImpact(wind_match) ==
  IF IsNone(wind_match) THEN 0
  ELSE IF Val(wind_match) > 20 THEN 4
  ELSE IF Val(wind_match) > 15 THEN 3
  ELSE IF Val(wind_match) > 10 THEN 2
  ELSE 1

WindImpact(weather_lower) ==
  IF Contains(weather_lower, <<"w", "i", "n", "d">>)
  THEN WindSpeedImpact(SearchMph(weather_lower))
  ELSE 0

PrecipitationImpact(weather_lower) ==
  IF \/ Contains(weather_lower, <<"r", "a", "i", "n">>)
     \/ Contains(weather_lower, <<"s", "n", "o", "w">>)
     \/ Contains(weather_lower, <<"s", "l", "e", "e", "t">>)
  THEN 3 ELSE 0

TemperatureBandImpact(temp_match) ==
  IF IsNone(temp_match) THEN 0
  ELSE IF Val(temp_match) < 32 THEN 2
  ELSE IF Val(temp_match) < 40 THEN 1
  ELSE IF Val(temp_match) > 90 THEN 1
  ELSE 0

TemperatureImpact(weather_lower) ==
  TemperatureBandImpact(SearchTemp(weather_lower))

WeatherScore(weather_lower) ==
  Min(WindImpact(weather_lower) + PrecipitationImpact(weather_lower)
        + TemperatureImpact(weather_lower), 10)

\* result['is_indoor_game']: set only when game_info has a venue
IsIndoorGame(game_info) ==
  IF "venue" \in DOMAIN game_info /\ ~IsNone(game_info.venue)
  THEN Some(\E r \in IndoorRoofTypes : Val(game_info.venue).roof_type = Some(r))
  ELSE None

WeatherImpact(weather, is_indoor_game) ==
  [weather_impact_score |->
     IF is_indoor_game = Some(TRUE) THEN 0
     ELSE IF IsNone(weather) \/ Val(weather) = <<>> THEN 0
     ELSE WeatherScore(lower(Val(weather))),
   is_indoor_game |-> is_indoor_game]

calculate_weather_impact(game_info) ==
  WeatherImpact(game_info.weather, IsIndoorGame(game_info))

(***************************************************************************)
(* _calculate_drive_context                                                *)
(***************************************************************************)

\* The backward loop "for i in range(current_play_index - 1, -1, -1)" from
\* index i on: acc carries plays_in_current_drive, drive_start_yardline and
\* drive_start_time.
\* a scan that takes every earlier play of the game for the current drive
CountAllPlays(game_plays, i, current_possession_team, acc) ==
  [acc EXCEPT !.plays_in_current_drive = i + 2]

RECURSIVE DriveScan(_, _, _, _)
DriveScan(game_plays, i, current_possession_team, acc) ==
  IF i < 0 THEN acc
  ELSE LET prev_play == At(game_plays, i)
       IN  IF prev_play.possession_team_id # current_possession_team
           THEN acc
           ELSE DriveScan(game_plays, i - 1, current_possession_team,
                  [plays_in_current_drive |-> acc.plays_in_current_drive + 1,
                   drive_start_yardline |->
                     IF HasSummary(prev_play)
                     THEN Some(Details(prev_play).absolute_yardline_number)
                     ELSE acc.drive_start_yardline,
                   drive_start_time |->
                     IF HasSummary(prev_play)
                     THEN Some(Details(prev_play).time_of_day_utc)
                     ELSE acc.drive_start_time])

\* The loop "for i in range(current_play_index): if i > 0: ..." that counts
\* the possession changes; team ids are non-empty strings (truthy).
DriveCount(game_plays, current_play_index) ==
  1 + Cardinality({i \in 1..(current_play_index - 1) :
        LET curr_team == At(game_plays, i).possession_team_id
            prev_team == At(game_plays, i - 1).possession_team_id
        IN  curr_team # prev_team /\ curr_team # "" /\ prev_team # ""})

\* int((start_time - current_time).total_seconds()); None when either text
\* does not parse (the bare except)
SecondsBetween(start_time, current_time) ==
  IF IsNone(start_time) \/ IsNone(current_time) THEN None
  ELSE Some(Val(start_time) - Val(current_time))

DriveTimeOfPossession(drive_start_time, current_play) ==
  IF IsNone(drive_start_time) \/ ~HasSummary(current_play) THEN None
  ELSE SecondsBetween(fromisoformat(Val(drive_start_time)),
                      fromisoformat(Details(current_play).time_of_day_utc))

DriveContext(drive_count, scan, current_play) ==
  [drive_number |-> drive_count,
   drive_play_number |-> scan.plays_in_current_drive,
   drive_start_yardline |-> scan.drive_start_yardline,
   drive_time_of_possession |->
     DriveTimeOfPossession(scan.drive_start_time, current_play),
   drive_plays_so_far |-> scan.plays_in_current_drive]

FirstPlayDriveContext ==
  [drive_number |-> 1, drive_play_number |-> 1,
   drive_start_yardline |-> None, drive_time_of_possession |-> None,
   drive_plays_so_far |-> 1]

calculate_drive_context(game_plays, current_play_index, current_play) ==
  IF current_play_index = 0 THEN FirstPlayDriveContext
  ELSE DriveContext(DriveCount(game_plays, current_play_index),
                    DriveScan(game_plays, current_play_index - 1,
                              current_play.possession_team_id,
                              [plays_in_current_drive |-> 1,
                               drive_start_yardline |-> None,
                               drive_start_time |-> None]),
                    current_play)

(***************************************************************************)
(* _calculate_game_script_features. game_competitive_index is kept as the  *)
(* integer 280 * index: 0.7 * max(0, 1 - |d|/28) + 0.3 * min(q/4, 1)       *)
(* = (7 * max(0, 28 - |d|) + 21 * min(q, 4)) / 280.                        *)
(***************************************************************************)
PossessionScoreDiff(play_details, current_play) ==
  IF current_play.possession_team_id = current_play.home_team_id
  THEN play_details.home_score - play_details.visitor_score
  ELSE play_details.visitor_score - play_details.home_score

\* The features with a time factor that keeps growing after quarter 4
GameScriptUncapped(quarter, score_diff) ==
  [is_winning_team |-> score_diff > 0,
   is_losing_team |-> score_diff < 0,
   is_comeback_situation |-> quarter >= 4 /\ score_diff <= -10,
   is_blowout_situation |-> Abs(score_diff) >= 21,
   game_competitive_index |->
     7 * Max(0, 28 - Abs(score_diff)) + 21 * quarter]

GameScript(quarter, score_diff) ==
  [is_winning_team |-> score_diff > 0,
   is_losing_team |-> score_diff < 0,
   is_comeback_situation |-> quarter >= 4 /\ score_diff <= -10,
   is_blowout_situation |-> Abs(score_diff) >= 21,
   game_competitive_index |->
     7 * Max(0, 28 - Abs(score_diff)) + 21 * Min(quarter, 4)]

calculate_game_script_features(play_details, current_play) ==
  GameScript(play_details.quarter, PossessionScoreDiff(play_details, current_play))

(***************************************************************************)
(* _calculate_momentum_indicators                                          *)
(***************************************************************************)
\* the indices below current_play_index whose play has a summary and is in
\* possession of team (own) or of another team (~own)
PriorPlays(game_plays, current_play_index, team, own) ==
  {i \in 0..(current_play_index - 1) :
     /\ HasSummary(At(game_plays, i))
     /\ (At(game_plays, i).possession_team_id = team) = own}

ScoringPlays(game_plays, S) ==
  {i \in S : Details(At(game_plays, i)).is_scoring}

\* a count of the scoring plays in place of the turnovers
CountScores(game_plays, S) ==
  Cardinality({i \in S : Details(At(game_plays, i)).is_scoring})

Turnovers(game_plays, S) ==
  Cardinality({i \in S : Details(At(game_plays, i)).is_change_of_possession})

\* the index the backward scan meets first (the largest), 0 when there is none
LastIndexOr0(S) == IF S = {} THEN 0 ELSE CHOOSE x \in S : \A y \in S : y <= x

Momentum(game_plays, own_plays, other_plays) ==
  [possessing_team_last_score |-> LastIndexOr0(ScoringPlays(game_plays, own_plays)),
   opposing_team_last_score |-> LastIndexOr0(ScoringPlays(game_plays, other_plays)),
   possessing_team_turnovers |-> Turnovers(game_plays, own_plays),
   opposing_team_turnovers |-> Turnovers(game_plays, other_plays),
   turnover_margin |-> Turnovers(game_plays, other_plays)
                         - Turnovers(game_plays, own_plays)]

\* the indicators taken over every play of the list, the current play and
\* the later ones included
MomentumOfWholeGame(game_plays, current_play_index, current_play) ==
  Momentum(game_plays,
           PriorPlays(game_plays, Len(game_plays),
                      current_play.possession_team_id, TRUE),
           PriorPlays(game_plays, Len(game_plays),
                      current_play.possession_team_id, FALSE))

calculate_momentum_indicators(game_plays, current_play_index, current_play) ==
  Momentum(game_plays,
           PriorPlays(game_plays, current_play_index,
                      current_play.possession_team_id, TRUE),
           PriorPlays(game_plays, current_play_index,
                      current_play.possession_team_id, FALSE))

(***************************************************************************)
(* _calculate_timeout_context                                              *)
(***************************************************************************)
TimeoutContext(possession_timeouts, opponent_timeouts) ==
  [possessing_team_timeouts |-> possession_timeouts,
   opposing_team_timeouts |-> opponent_timeouts,
   timeout_advantage |-> possession_timeouts - opponent_timeouts]

calculate_timeout_context(play_details, current_play) ==
  IF current_play.possession_team_id = current_play.home_team_id
  THEN TimeoutContext(play_details.home_timeouts_left,
                      play_details.visitor_timeouts_left)
  ELSE TimeoutContext(play_details.visitor_timeouts_left,
                      play_details.home_timeouts_left)

(***************************************************************************)
(* _calculate_field_position_context                                       *)
(***************************************************************************)
\* categories whose upper yardlines 40, 60 and 80 fall in the next category
FieldPositionExclusive(yardline) ==
  [field_position_category |->
     IF yardline < 40 THEN "own_territory"
     ELSE IF yardline < 60 THEN "midfield"
     ELSE IF yardline < 80 THEN "opponent_territory"
     ELSE "red_zone",
   yards_from_own_endzone |-> yardline,
   yards_from_opponent_endzone |-> 100 - yardline]

FieldPosition(yardline) ==
  [field_position_category |->
     IF yardline <= 20 THEN "own_territory"
     ELSE IF yardline <= 40 THEN "own_territory"
     ELSE IF yardline <= 60 THEN "midfield"
     ELSE IF yardline <= 80 THEN "opponent_territory"
     ELSE "red_zone",
   yards_from_own_endzone |-> yardline,
   yards_from_opponent_endzone |-> 100 - yardline]

calculate_field_position_context(play_details) ==
  FieldPosition(play_details.absolute_yardline_number)

(***************************************************************************)
(* _calculate_game_context_features: the six sub-results merged into one   *)
(* record (result.update), for a play that has a summary.                  *)
(***************************************************************************)
Merge(r1, r2) ==
  [f \in DOMAIN r1 \cup DOMAIN r2 |-> IF f \in DOMAIN r2 THEN r2[f] ELSE r1[f]]

calculate_game_context_features(game_plays, current_play_index, current_play, game_info) ==
  Merge(calculate_drive_context(game_plays, current_play_index, current_play),
  Merge(calculate_game_script_features(Details(current_play), current_play),
  Merge(calculate_momentum_indicators(game_plays, current_play_index, current_play),
  Merge(calculate_timeout_context(Details(current_play), current_play),
  Merge(calculate_weather_impact(game_info),
        calculate_field_position_context(Details(current_play)))))))

(***************************************************************************)
(* The store (src/src/database/database.py)                                *)
(*   games    id -> row of table games (DBGame), for the stored ids        *)
(*   plays    the rows of table plays (DBPlay) in insertion order, without *)
(*            the autoincrement id and created_at                          *)
(*   players  nfl_id -> row of table players (DBPlayer)                    *)
(* A session is a record [games, plays, players]: the committed store plus *)
(* the work of the open transaction.                                       *)
(* The caller's side                                                       *)
(*   game       the Game object the caller ingests                         *)
(*   last_call  the Game object of the latest save_game call, if any       *)
(*   outcome    how that call ended: "returned" or "raised"                *)
(*   repeat     whether that call saved the same object as the one before  *)
(*   result     the value returned by the latest direct call of a          *)
(*              derivation function, if any                                *)
(*   connections  the transaction of each worker process that is saving a  *)
(*              game through its own connection                            *)
(*   write_lock the worker that holds the write lock of the SQLite file    *)
(*   scrape     the state of a run of parallel_scrape_week, if any         *)
(***************************************************************************)
VARIABLES games, plays, players, game, last_call, outcome, repeat, result,
          connections, write_lock, scrape

vars == <<games, plays, players, game, last_call, outcome, repeat, result,
          connections, write_lock, scrape>>

EmptyFunction == [x \in {} |-> x]

\* session.query(DBPlay).filter_by(game_id=game_id)
PlaysOf(table, game_id) == SelectSeq(table, LAMBDA row : row.game_id = game_id)

(***************************************************************************)
(* _save_players: update the mutable columns of the players already        *)
(* stored, insert the others. players.gsis_id is UNIQUE: inserting a       *)
(* gsis_id that another row holds fails (IntegrityError).                  *)
(***************************************************************************)
PlayerWithId(player_list, id) ==
  player_list[CHOOSE i \in 1..Len(player_list) : player_list[i].nfl_id = id]

\* "for db_player in existing_players": the mutable columns follow the input
UpdatePlayers(player_list, table) ==
  [id \in DOMAIN table |->
     IF \E i \in 1..Len(player_list) : player_list[i].nfl_id = id
     THEN [table[id] EXCEPT
             !.team_id = PlayerWithId(player_list, id).team_id,
             !.position = PlayerWithId(player_list, id).position,
             !.position_group = PlayerWithId(player_list, id).position_group]
     ELSE table[id]]

\* "if player.nfl_id not in existing_player_ids": the players to insert
NewPlayers(player_list, table) ==
  SelectSeq(player_list, LAMBDA p : p.nfl_id \notin DOMAIN table)

\* the UNIQUE constraint on players.gsis_id rejects the bulk insert
GsisConflict(new_players, table) ==
  \/ \E i \in 1..Len(new_players) : \E id \in DOMAIN table :
       table[id].gsis_id = new_players[i].gsis_id
  \/ \E i, j \in 1..Len(new_players) :
       i # j /\ new_players[i].gsis_id = new_players[j].gsis_id

\* an insert that replaces the table by the new players
ReplacePlayers(new_players, table) ==
  [id \in {new_players[i].nfl_id : i \in 1..Len(new_players)} |->
     PlayerWithId(new_players, id)]

\* session.bulk_save_objects(new_players)
InsertPlayers(new_players, table) ==
  [id \in DOMAIN table \cup {new_players[i].nfl_id : i \in 1..Len(new_players)} |->
     IF id \in DOMAIN table THEN table[id] ELSE PlayerWithId(new_players, id)]

BulkSave(new_players, updated) ==
  IF GsisConflict(new_players, updated)
  THEN [players |-> updated, raised |-> TRUE]
  ELSE [players |-> InsertPlayers(new_players, updated), raised |-> FALSE]

save_players(player_list, table) ==
  BulkSave(NewPlayers(player_list, table), UpdatePlayers(player_list, table))

\* "all_players[player.nfl_id] = player" over every play with a summary, home
\* list then away list: one entry per nfl_id, the last occurrence
RECURSIVE Personnel(_)
Personnel(play_list) ==
  IF play_list = <<>> THEN <<>>
  ELSE (IF HasSummary(Head(play_list))
        THEN Val(Head(play_list).summary).home \o Val(Head(play_list).summary).away
        ELSE <<>>) \o Personnel(Tail(play_list))

\* the entries of all from position i on that no later entry overrides
RECURSIVE LastOccurrences(_, _)
LastOccurrences(all, i) ==
  IF i > Len(all) THEN <<>>
  ELSE (IF \A j \in (i + 1)..Len(all) : all[j].nfl_id # all[i].nfl_id
        THEN <<all[i]>> ELSE <<>>) \o LastOccurrences(all, i + 1)

AllPlayers(play_list) == LastOccurrences(Personnel(play_list), 1)

(***************************************************************************)
(* _save_plays, the body of the loop over the plays: the DBPlay row of the *)
(* play at play_index. details is None for a play without summary (those   *)
(* columns stay NULL / at their default). raised marks the TypeError of    *)
(* "time_context['time_remaining_game'] < 300" on a None.                  *)
(***************************************************************************)
\* the differential read from the visitors' side
VisitorMinusHome(play_details) ==
  play_details.visitor_score - play_details.home_score

ScoreDifferential(play_details) ==
  play_details.home_score - play_details.visitor_score

\* play_details.quarter == 4 and time_context['time_remaining_game'] < 300
\* compares None with an int when the clock did not parse
MustScoreRaises(play_details, time_context) ==
  play_details.quarter = 4 /\ IsNone(time_context.time_remaining_game)

MustScore(play, play_details, time_context) ==
  /\ play_details.quarter = 4
  /\ Val(time_context.time_remaining_game) < 300
  /\ PossessionScoreDiff(play_details, play) <= -8

(***************************************************************************)
(* _analyze_defensive_personnel. A dict is a record; d.get(key, default)   *)
(* is Get. player.dict() keeps the field names of the Player model         *)
(* (position_group), the API's own dicts carry the alias (positionGroup).  *)
(***************************************************************************)
Get(d, key, default) == IF key \in DOMAIN d THEN d[key] ELSE default

\* player.dict(): the fields of the Player object under their field names
PlayerDict(player) == player

\* position_counts[pos_group] after the loop over the players
PositionCount(defensive_players, pos_group) ==
  Cardinality({i \in 1..Len(defensive_players) :
                 Get(defensive_players[i], "positionGroup", "") = pos_group})

DefensivePackage(db_count) ==
  IF db_count >= 6 THEN Some("dime")
  ELSE IF db_count = 5 THEN Some("nickel")
  ELSE IF db_count = 4 THEN Some("base")
  ELSE Some("heavy")

DefensiveFormation(dl_count, lb_count) ==
  CASE dl_count = 4 /\ lb_count = 3 -> Some("4-3")
    [] dl_count = 4 /\ lb_count = 2 -> Some("4-2-5")
    [] dl_count = 4 /\ lb_count = 1 -> Some("4-1-6")
    [] dl_count = 3 /\ lb_count = 4 -> Some("3-4")
    [] dl_count = 3 /\ lb_count = 3 -> Some("3-3-5")
    [] dl_count = 3 /\ lb_count = 2 -> Some("3-2-6")
    [] dl_count = 2 /\ lb_count = 4 -> Some("2-4-5")
    [] dl_count = 5 -> Some("5-2")
    [] dl_count = 6 -> Some("6-1")
    [] OTHER -> None

\* "for pos in positions: if pos == 'SS': box_count += 1; break"
StrongSafetyInBox(defensive_players) ==
  IF \E i \in 1..Len(defensive_players) :
       Get(defensive_players[i], "position", "") = "SS"
  THEN 1 ELSE 0

DefensiveInfo(db_count, lb_count, dl_count, strong_safety) ==
  [defensive_formation |-> DefensiveFormation(dl_count, lb_count),
   defensive_package |-> DefensivePackage(db_count),
   db_count |-> db_count,
   lb_count |-> lb_count,
   dl_count |-> dl_count,
   box_count |-> dl_count + lb_count + strong_safety]

NoDefensiveInfo ==
  [defensive_formation |-> None, defensive_package |-> None,
   db_count |-> 0, lb_count |-> 0, dl_count |-> 0, box_count |-> 0]

analyze_defensive_personnel(defensive_players) ==
  IF defensive_players = <<>> THEN NoDefensiveInfo
  ELSE DefensiveInfo(PositionCount(defensive_players, "DB"),
                     PositionCount(defensive_players, "LB"),
                     PositionCount(defensive_players, "DL"),
                     StrongSafetyInBox(defensive_players))

\* the defence of a play: the away list when the home team is on offense
DefensivePlayers(summary) ==
  IF summary.home_is_offense THEN summary.away ELSE summary.home

\* the list _save_plays hands over: every Player object through dict()
DefensivePlayersDict(defensive_players) ==
  [i \in 1..Len(defensive_players) |-> PlayerDict(defensive_players[i])]

BaseColumns(game_id, play) ==
  [game_id |-> game_id,
   play_id |-> play.play_id,
   sequence |-> play.sequence,
   quarter |-> play.quarter,
   game_clock |-> play.game_clock,
   possession_team_id |-> play.possession_team_id]

\* "db_play.defensive_formation = defensive_info.get('defensive_formation')"
\* and the five columns after it
DefensiveColumns(defensive_info) ==
  [defensive_formation |-> defensive_info.defensive_formation,
   defensive_package |-> defensive_info.defensive_package,
   defensive_db_count |-> defensive_info.db_count,
   defensive_lb_count |-> defensive_info.lb_count,
   defensive_dl_count |-> defensive_info.dl_count,
   defensive_box_count |-> defensive_info.box_count]

SummaryColumns(play, play_details, time_context, game_context) ==
  Merge([home_score |-> play_details.home_score,
         visitor_score |-> play_details.visitor_score,
         absolute_yardline_number |-> play_details.absolute_yardline_number,
         time_of_day_utc |-> play_details.time_of_day_utc,
         score_differential |-> ScoreDifferential(play_details),
         is_must_score_situation |-> MustScore(play, play_details, time_context),
         home_personnel_json |-> Val(play.summary).home,
         away_personnel_json |-> Val(play.summary).away],
  Merge(DefensiveColumns(analyze_defensive_personnel(
          DefensivePlayersDict(DefensivePlayers(Val(play.summary))))),
  Merge(time_context, game_context)))

SummaryRow(game_id, play_list, play_index, play, time_context, game_info) ==
  IF MustScoreRaises(Details(play), time_context)
  THEN [row |-> Merge(BaseColumns(game_id, play), [details |-> None]),
        raised |-> TRUE]
  ELSE [row |-> Merge(BaseColumns(game_id, play),
                  [details |-> Some(SummaryColumns(play, Details(play), time_context,
                     calculate_game_context_features(play_list, play_index,
                                                     play, game_info)))]),
        raised |-> FALSE]

\* The row of a play derived under the weather text the store holds for
\* the game, where it holds one
PlayRowFromStore(game_id, play_list, play_index, game_info) ==
  IF ~HasSummary(At(play_list, play_index))
  THEN [row |-> Merge(BaseColumns(game_id, At(play_list, play_index)),
                      [details |-> None]),
        raised |-> FALSE]
  ELSE SummaryRow(game_id, play_list, play_index, At(play_list, play_index),
                  calculate_time_remaining(
                    Details(At(play_list, play_index)).quarter,
                    Details(At(play_list, play_index)).game_clock),
                  IF game_id \in DOMAIN games
                  THEN [game_info EXCEPT !.weather = games[game_id].weather]
                  ELSE game_info)

PlayRow(game_id, play_list, play_index, game_info) ==
  IF ~HasSummary(At(play_list, play_index))
  THEN [row |-> Merge(BaseColumns(game_id, At(play_list, play_index)),
                      [details |-> None]),
        raised |-> FALSE]
  ELSE SummaryRow(game_id, play_list, play_index, At(play_list, play_index),
                  calculate_time_remaining(
                    Details(At(play_list, play_index)).quarter,
                    Details(At(play_list, play_index)).game_clock),
                  game_info)

\* the loop "for play_index, play in enumerate(plays)" from play_index on:
\* session.add(db_play) for each play, until one raises
RECURSIVE AddPlays(_, _, _, _, _)

AddPlay(table, game_id, play_list, play_index, game_info, r) ==
  IF r.raised THEN [plays |-> table, raised |-> TRUE]
  ELSE AddPlays(Append(table, r.row), game_id, play_list, play_index + 1, game_info)

AddPlays(table, game_id, play_list, play_index, game_info) ==
  IF play_index >= Len(play_list) THEN [plays |-> table, raised |-> FALSE]
  ELSE AddPlay(table, game_id, play_list, play_index, game_info,
               PlayRow(game_id, play_list, play_index, game_info))

\* a save that appends to the rows already stored for the game
KeepPlays(table, game_id) == table

\* session.query(DBPlay).filter_by(game_id=db_game.id).delete()
DeletePlays(table, game_id) ==
  SelectSeq(table, LAMBDA row : row.game_id # game_id)

\* "if all_players: self._save_players(...)"
SaveAllPlayers(all_players, table) ==
  IF all_players # <<>> THEN save_players(all_players, table)
  ELSE [players |-> table, raised |-> FALSE]

SessionAfter(session, added, saved_players) ==
  [session |-> [session EXCEPT !.plays = added.plays, !.players = saved_players],
   raised |-> added.raised]

SavePlayRows(session, deleted, saved, game_id, play_list, game_info) ==
  IF saved.raised
  THEN SessionAfter(session, [plays |-> deleted, raised |-> TRUE], saved.players)
  ELSE SessionAfter(session, AddPlays(deleted, game_id, play_list, 0, game_info),
                    saved.players)

save_plays(session, game_id, play_list, game_info) ==
  SavePlayRows(session, DeletePlays(session.plays, game_id),
               SaveAllPlayers(AllPlayers(play_list), session.players),
               game_id, play_list, game_info)

\* ---------------------------------------------------------------------
\* Head-to-head record (_calculate_head_to_head_stats)
\* ---------------------------------------------------------------------

\* A Python float that is the quotient of two integers, kept exact
Ratio(total, count) == [total |-> total, count |-> count]

\* ".limit(10)"
HeadToHeadLimit == 10

\* "result = {'head_to_head_home_wins': 0, ...}"
NoHeadToHead ==
  [head_to_head_home_wins |-> 0,
   head_to_head_away_wins |-> 0,
   head_to_head_avg_total_points |-> Ratio(0, 1)]

\* ".filter(and_(or_(and_(home == home_team_id, away == away_team_id),
\*  and_(home == away_team_id, away == home_team_id)), date < game_date))"
HeadToHeadGames(table, home_team_id, away_team_id, game_date) ==
  {id \in DOMAIN table :
     /\ \/ /\ table[id].home_team_id = home_team_id
           /\ table[id].away_team_id = away_team_id
        \/ /\ table[id].home_team_id = away_team_id
           /\ table[id].away_team_id = home_team_id
     /\ table[id].date < game_date}

\* The rows with fewer than `limit` earlier rows: the oldest ones
Oldest(table, ids, limit) ==
  {id \in ids :
     Cardinality({j \in ids : table[j].date < table[id].date}) < limit}

\* ".order_by(DBGame.date.desc()).limit(10)": the rows with fewer than
\* `limit` later rows (the stored dates of one pairing are distinct)
MostRecent(table, ids, limit) ==
  {id \in ids :
     Cardinality({j \in ids : table[j].date > table[id].date}) < limit}

\* "total_points += game.home_score_total + game.away_score_total"
RECURSIVE TotalPoints(_, _)
TotalPoints(table, ids) ==
  IF ids = {} THEN 0
  ELSE table[CHOOSE id \in ids : TRUE].home_score_total
         + table[CHOOSE id \in ids : TRUE].away_score_total
         + TotalPoints(table, ids \ {CHOOSE id \in ids : TRUE})

\* The condition of the two "home_wins += 1" branches
CountsForHome(row, home_team_id) ==
  IF row.home_team_id = home_team_id
  THEN row.home_score_total > row.away_score_total
  ELSE row.away_score_total > row.home_score_total

\* "for game in h2h_games: ..." and the three result assignments
HeadToHeadOf(table, ids, home_team_id) ==
  IF ids = {} THEN NoHeadToHead
  ELSE
    [head_to_head_home_wins |->
       Cardinality({id \in ids : CountsForHome(table[id], home_team_id)}),
     head_to_head_away_wins |->
       Cardinality({id \in ids : ~CountsForHome(table[id], home_team_id)}),
     head_to_head_avg_total_points |->
       Ratio(TotalPoints(table, ids), Cardinality(ids))]

calculate_head_to_head_stats(table, home_team_id, away_team_id, game_date) ==
  HeadToHeadOf(table,
               MostRecent(table,
                          HeadToHeadGames(table, home_team_id, away_team_id,
                                          game_date),
                          HeadToHeadLimit),
               home_team_id)

\* ---------------------------------------------------------------------
\* Season-to-date statistics of a team (_calculate_team_stats)
\* ---------------------------------------------------------------------

\* Truth value of a nullable Boolean column
Truthy(flag) == ~IsNone(flag) /\ Val(flag)

\* "result = {'points_per_game': 0.0, ..., 'last3_wins': 0, ...}": the
\* defaults of the statistics the model keeps
NoTeamStats ==
  [points_per_game |-> Ratio(0, 1),
   points_allowed_per_game |-> Ratio(0, 1),
   turnover_rate |-> Ratio(0, 1),
   takeaway_rate |-> Ratio(0, 1),
   last3_wins |-> 0,
   last3_points_per_game |-> Ratio(0, 1),
   last3_points_allowed |-> Ratio(0, 1),
   last5_wins |-> 0,
   last5_points_per_game |-> Ratio(0, 1),
   last5_points_allowed |-> Ratio(0, 1)]

\* ".filter(and_(or_(home_team_id == team_id, away_team_id == team_id),
\*  season == season, date < game_date))"
TeamGames(table, team_id, season, game_date) ==
  {id \in DOMAIN table :
     /\ \/ table[id].home_team_id = team_id
        \/ table[id].away_team_id = team_id
     /\ table[id].season = season
     /\ table[id].date < game_date}

\* "if not play.yards_gained and play.yards_gained != 0: continue"
SkippedPlay(play) == IsNone(play.yards_gained)

\* "session.query(DBPlay).filter(DBPlay.game_id == game.id)", the skip,
\* and "if team_had_possession: ... if play.is_turnover:
\* total_turnovers_committed += 1"
TurnoversCommitted(rows, ids, team_id) ==
  Cardinality({i \in DOMAIN rows :
                 /\ rows[i].game_id \in ids
                 /\ ~SkippedPlay(rows[i])
                 /\ rows[i].possession_team_id = team_id
                 /\ Truthy(rows[i].is_turnover)})

\* "else: ... if play.is_turnover: total_turnovers_forced += 1"
TurnoversForced(rows, ids, team_id) ==
  Cardinality({i \in DOMAIN rows :
                 /\ rows[i].game_id \in ids
                 /\ ~SkippedPlay(rows[i])
                 /\ rows[i].possession_team_id # team_id
                 /\ Truthy(rows[i].is_turnover)})

\* "team_was_home = game.home_team_id == team_id; if team_was_home:
\* points_scored = game.home_score_total; points_allowed =
\* game.away_score_total; else: ..." (scored: the points of the team,
\* otherwise those of its opponent)
TeamPoints(row, team_id, scored) ==
  IF (row.home_team_id = team_id) = scored
  THEN row.home_score_total
  ELSE row.away_score_total

\* "total_points += points_scored", "total_points_allowed +=
\* points_allowed", "points_3 += points_scored", ...
RECURSIVE SumPoints(_, _, _, _)
SumPoints(view, ids, team_id, scored) ==
  IF ids = {} THEN 0
  ELSE TeamPoints(view[CHOOSE id \in ids : TRUE], team_id, scored)
         + SumPoints(view, ids \ {CHOOSE id \in ids : TRUE}, team_id, scored)

\* "won = ...; if won: wins_3 += 1"
TeamWins(view, ids, team_id) ==
  Cardinality({id \in ids :
                 TeamPoints(view[id], team_id, TRUE)
                   > TeamPoints(view[id], team_id, FALSE)})

\* "if len(team_games) >= 3: recent_3_games = team_games[:3] ..." and the
\* same for 5: `recent` are the first `span` games of the list
RecentForm(view, recent, team_id, span, enough) ==
  IF enough
  THEN [wins |-> TeamWins(view, recent, team_id),
        points_per_game |-> Ratio(SumPoints(view, recent, team_id, TRUE), span),
        points_allowed |-> Ratio(SumPoints(view, recent, team_id, FALSE), span)]
  ELSE [wins |-> 0,
        points_per_game |-> Ratio(0, 1),
        points_allowed |-> Ratio(0, 1)]

\* The result of the function from the season averages and the two forms
TeamStatsFrom(view, rows, ids, team_id, last3, last5) ==
  [points_per_game |->
     Ratio(SumPoints(view, ids, team_id, TRUE), Cardinality(ids)),
   points_allowed_per_game |->
     Ratio(SumPoints(view, ids, team_id, FALSE), Cardinality(ids)),
   turnover_rate |->
     Ratio(TurnoversCommitted(rows, ids, team_id), Cardinality(ids)),
   takeaway_rate |->
     Ratio(TurnoversForced(rows, ids, team_id), Cardinality(ids)),
   last3_wins |-> last3.wins,
   last3_points_per_game |-> last3.points_per_game,
   last3_points_allowed |-> last3.points_allowed,
   last5_wins |-> last5.wins,
   last5_points_per_game |-> last5.points_per_game,
   last5_points_allowed |-> last5.points_allowed]

\* "if not team_games: return result", "games_count = len(team_games)",
\* the averages and the recent form. `table` holds the stored rows, which
\* the query filters and orders; `view` holds the objects it returns.
TeamStatsOf(table, view, rows, ids, team_id) ==
  IF ids = {} THEN NoTeamStats
  ELSE TeamStatsFrom(view, rows, ids, team_id,
                     RecentForm(view, MostRecent(table, ids, 3), team_id, 3,
                                Cardinality(ids) >= 3),
                     RecentForm(view, MostRecent(table, ids, 5), team_id, 5,
                                Cardinality(ids) >= 5))

calculate_team_stats(table, view, rows, team_id, game_date, season) ==
  TeamStatsOf(table, view, rows,
              TeamGames(table, team_id, season, game_date), team_id)

\* The objects a query returns while db_game has unflushed changes
\* (sessionmaker(autoflush=False)): the stored rows are filtered, and the
\* row of the game being saved comes back as db_game with its new columns
IdentityMap(table, db_game) ==
  [id \in DOMAIN table |-> IF id = db_game.id THEN db_game ELSE table[id]]

\* _calculate_historical_team_stats: the statistics of the two teams and
\* their head-to-head record
calculate_historical_team_stats(table, view, rows, game_date, home_team_id, away_team_id, season) ==
  [home_team |-> calculate_team_stats(table, view, rows, home_team_id,
                                      game_date, season),
   away_team |-> calculate_team_stats(table, view, rows, away_team_id,
                                      game_date, season),
   head_to_head |->
     HeadToHeadOf(view,
                  MostRecent(table,
                             HeadToHeadGames(table, home_team_id,
                                             away_team_id, game_date),
                             HeadToHeadLimit),
                  home_team_id)]

(***************************************************************************)
(* save_game: the work of the transaction up to the commit or the raise.   *)
(* The games row keeps the columns the model reads. Dates are day numbers: *)
(* the date texts are ISO dates, whose order as texts is that of the days.  *)
(***************************************************************************)
GameColumns(session, g) ==
  [id |-> g.game_info.id,
   season |-> g.game_info.season,
   date |-> g.game_info.date,
   weather |-> g.game_info.weather,
   venue_roof_type |->
     IF ~IsNone(g.venue) THEN Val(g.venue).roof_type
     ELSE IF g.game_info.id \in DOMAIN session.games
     THEN session.games[g.game_info.id].venue_roof_type
     ELSE None,
   home_team_id |-> g.teams.home_id,
   away_team_id |-> g.teams.away_id,
   home_score_total |-> g.teams.home_score_total,
   away_score_total |-> g.teams.away_score_total]

\* "historical_stats = self._calculate_historical_team_stats(...)" and
\* "setattr(db_game, stat_name, stat_value)": the inputs carry a date and
\* both team ids, and the queries run before any flush
GameRow(session, g) ==
  Merge(GameColumns(session, g),
        [statistics |->
           calculate_historical_team_stats(
             session.games, IdentityMap(session.games, GameColumns(session, g)),
             session.plays, g.game_info.date, g.teams.home_id,
             g.teams.away_id, g.game_info.season)])

\* "db_game = ...first(); if not db_game: session.add(db_game)" and the
\* column updates
WithGame(session, row) ==
  [session EXCEPT !.games =
     [i \in DOMAIN session.games \cup {row.id} |->
        IF i = row.id THEN row ELSE session.games[i]]]

SaveGameTransaction(store, g) ==
  IF g.plays # <<>>
  THEN save_plays(WithGame(store, GameRow(store, g)), g.game_info.id,
                  g.plays, g.game_info)
  ELSE [session |-> WithGame(store, GameRow(store, g)), raised |-> FALSE]

\* session.commit(): the work of the transaction becomes the store
commit(store, session) == session

\* a session whose pending changes survive the error
KeepSession(store, session) == session

\* session.rollback(): the work of the transaction is discarded
rollback(store, session) == store

Store == [games |-> games, plays |-> plays, players |-> players]

\* what the caller sees: the store, and the return or the re-raised error
Finish(g, after, raised) ==
  /\ games' = after.games
  /\ plays' = after.plays
  /\ players' = after.players
  /\ outcome' = IF raised THEN "raised" ELSE "returned"
  /\ repeat' = (last_call = Some(g))
  /\ last_call' = Some(g)
  /\ UNCHANGED <<game, result, connections, write_lock, scrape>>

EndTransaction(g, txn) ==
  IF txn.raised
  THEN Finish(g, rollback(Store, txn.session), TRUE)
  ELSE Finish(g, commit(Store, txn.session), FALSE)

save_game(g) == EndTransaction(g, SaveGameTransaction(Store, g))

(***************************************************************************)
(* Inputs: the Game objects a caller hands to save_game (src/models.py).   *)
(***************************************************************************)
MaxPlays == 2

TeamIds == {"HOME", "AWAY"}

HomePlayer ==
  [nfl_id |-> 1, gsis_id |-> "00-0000001", position |-> "QB",
   position_group |-> "QB", team_id |-> "HOME"]

AwayPlayer ==
  [nfl_id |-> 2, gsis_id |-> "00-0000002", position |-> "SS",
   position_group |-> "DB", team_id |-> "AWAY"]

\* the same player as HomePlayer after a trade and a change of position
TradedPlayer ==
  [nfl_id |-> 1, gsis_id |-> "00-0000001", position |-> "WR",
   position_group |-> "WR", team_id |-> "AWAY"]

\* another vendor id under the gsis_id of AwayPlayer
ClashingPlayer ==
  [nfl_id |-> 3, gsis_id |-> "00-0000002", position |-> "FS",
   position_group |-> "DB", team_id |-> "HOME"]

Timestamp(epoch) == [iso |-> TRUE, epoch |-> epoch]

BadTimestamp == [iso |-> FALSE, epoch |-> 0]

PlayDetails(quarter, game_clock, home_score, visitor_score, yardline, utc) ==
  [quarter |-> quarter, game_clock |-> game_clock,
   home_score |-> home_score, visitor_score |-> visitor_score,
   absolute_yardline_number |-> yardline, time_of_day_utc |-> utc,
   is_scoring |-> FALSE, is_change_of_possession |-> FALSE,
   home_timeouts_left |-> 3, visitor_timeouts_left |-> 3]

PlaySummary(play_details, team, home, away) ==
  [play |-> play_details, home_is_offense |-> team = "HOME",
   home |-> home, away |-> away]

\* a play before it gets its place in the list: possession team and summary
Template(team, summary) == [team |-> team, summary |-> summary]

\* the Play objects of a list of templates, numbered in order
Plays(templates) ==
  [i \in 1..Len(templates) |->
     [play_id |-> i, sequence |-> i,
      quarter |-> IF IsNone(templates[i].summary) THEN 1
                  ELSE Val(templates[i].summary).play.quarter,
      game_clock |-> IF IsNone(templates[i].summary) THEN <<"1", "5", ":", "0", "0">>
                     ELSE Val(templates[i].summary).play.game_clock,
      possession_team_id |-> templates[i].team,
      home_team_id |-> "HOME",
      summary |-> templates[i].summary]]

ListsUpTo(S, n) == UNION {[1..k -> S] : k \in 0..n}

Game(id, venue, weather, play_list) ==
  [game_info |-> [id |-> id, season |-> 2024, date |-> 1,
                  weather |-> weather],
   venue |-> venue,
   teams |-> [home_id |-> "HOME", away_id |-> "AWAY",
              home_score_total |-> 0, away_score_total |-> 0],
   plays |-> play_list]

Venue(roof_type) == Some([roof_type |-> Some(roof_type)])

\* quarter and clock text of the plays that are saved: a missing clock, a
\* clock that is no MM:SS, a clock that parses
\* quarter, clock text and score (home, visitors) of the summaries: a
\* missing clock early in the game, an unreadable and a readable clock in
\* the last quarter
StoreSituations ==
  {<<1, <<>>, 7, 3>>, <<4, <<"x">>, 7, 3>>, <<4, <<"4", ":", "0", "0">>, 3, 7>>}

StoreTemplates ==
  {Template(team, None) : team \in TeamIds}
  \cup
  {Template(team,
            Some(PlaySummary(PlayDetails(q[1], q[2], q[3], q[4], 25, Timestamp(0)),
                             team, <<HomePlayer>>, <<AwayPlayer>>))) :
     team \in TeamIds, q \in StoreSituations}

\* venue and weather text of the games that are saved: a dome under a
\* storm, an open stadium without weather text
StoreConditions == {<<Venue("DOME"), Some(<<"W", "i", "n", "d", " ", "2", "5", " ", "m", "p", "h", ",", " ", "R", "a", "i", "n">>)>>, <<Venue("OPEN"), None>>}

Games ==
  {Game("G1", c[1], c[2], Plays(templates)) :
     c \in StoreConditions, templates \in ListsUpTo(StoreTemplates, MaxPlays)}

\* games ingested earlier: an older capture of game G1, and another game
\* whose personnel holds a vendor id that clashes on gsis_id
PriorGames ==
  {Game("G1", Venue("OPEN"), None,
        Plays(<<Template("HOME",
                  Some(PlaySummary(PlayDetails(1, <<"4", ":", "0", "0">>, 0, 0, 25, Timestamp(0)),
                                   "HOME", <<TradedPlayer>>, <<>>)))>>)),
   Game("G2", Venue("OPEN"), None,
        Plays(<<Template("AWAY",
                  Some(PlaySummary(PlayDetails(1, <<"4", ":", "0", "0">>, 0, 0, 25, Timestamp(0)),
                                   "AWAY", <<ClashingPlayer>>, <<>>)))>>))}

(***************************************************************************)
(* The ingest: a caller saves its Game object, any number of times, while  *)
(* earlier ingests of other captures may come in between.                  *)
(***************************************************************************)
Init ==
  /\ games = EmptyFunction
  /\ plays = <<>>
  /\ players = EmptyFunction
  /\ game \in Games
  /\ last_call = None
  /\ outcome = "none"
  /\ repeat = FALSE
  /\ result = None
  /\ connections = <<>>
  /\ write_lock = None
  /\ scrape = None

SaveGame == save_game(game)

SavePrior == \E g \in PriorGames : save_game(g)

Next == SaveGame \/ SavePrior

Spec == Init /\ [][Next]_vars

(***************************************************************************)
(* Claims on the ingest                                                    *)
(***************************************************************************)
LastGame == Val(last_call)

LastId == LastGame.game_info.id

\* C1: saving the same Game object twice in succession leaves, for its game
\* id, the same play rows (count and column values) as saving it once.
C1_ResaveIsIdempotent ==
  [][repeat' => PlaysOf(plays', LastId') = PlaysOf(plays, LastId)]_vars

\* C1 witness: a game with plays was saved twice in a row and both saves
\* committed.
C1_Witness ==
  /\ repeat
  /\ outcome = "returned"
  /\ Len(PlaysOf(plays, LastId)) = MaxPlays

BadClock(play) ==
  /\ HasSummary(play)
  /\ IsNone(calculate_time_remaining(1, Details(play).game_clock).time_remaining_game)

RowsMatch(g) ==
  /\ Len(PlaysOf(plays, g.game_info.id)) = Len(g.plays)
  /\ \A i \in 1..Len(g.plays) :
       LET row == PlaysOf(plays, g.game_info.id)[i]
       IN  /\ row.play_id = g.plays[i].play_id
           /\ BadClock(g.plays[i]) =>
                /\ ~IsNone(row.details)
                /\ IsNone(Val(row.details).time_remaining_half)
                /\ IsNone(Val(row.details).time_remaining_game)
                /\ ~Val(row.details).is_two_minute_drill

\* C3 (as claimed): a play whose clock is missing or unparseable does not
\* abort the save, in any quarter: the call returns, and that play and all
\* the others are stored, the time columns of that play null / false.
\* (Games whose personnel cannot be inserted are left aside: that failure
\* is a persistence failure, not a field-level one.)
C3_BadClockNeverAborts ==
  (/\ ~IsNone(last_call)
   /\ \E i \in 1..Len(LastGame.plays) : BadClock(LastGame.plays[i])
   /\ ~SaveAllPlayers(AllPlayers(LastGame.plays), players).raised)
  => (outcome = "returned" /\ RowsMatch(LastGame))

\* C3 failing run: the only play of the game is in quarter 4 with the clock
\* text "x"; the personnel is inserted without error, yet the save raised
\* and no play of the game is stored.
C3_Witness ==
  /\ ~IsNone(last_call)
  /\ Len(LastGame.plays) = 1
  /\ BadClock(LastGame.plays[1])
  /\ LastGame.plays[1].quarter = 4
  /\ ~SaveAllPlayers(AllPlayers(LastGame.plays), players).raised
  /\ outcome = "raised"
  /\ PlaysOf(plays, LastId) = <<>>

\* C4 (as claimed): every stored play of a game under a DOME,
\* RETRACTABLE_CLOSED or INDOOR roof has weather_impact_score 0 and
\* is_indoor_game true, whatever the weather text. (Read on the plays that
\* have a summary: the others carry no derived column at all.)
C4_IndoorForcesZero ==
  \A i \in 1..Len(plays) :
    (/\ ~IsNone(plays[i].details)
     /\ \E r \in IndoorRoofTypes :
          games[plays[i].game_id].venue_roof_type = Some(r))
    => /\ Val(plays[i].details).weather_impact_score = 0
       /\ Val(plays[i].details).is_indoor_game = Some(TRUE)

\* C4 failing run: a stored play of a game under a DOME roof whose
\* weather_impact_score is not 0 and whose is_indoor_game is null.
C4_Witness ==
  \E i \in 1..Len(plays) :
    /\ ~IsNone(plays[i].details)
    /\ games[plays[i].game_id].venue_roof_type = Some("DOME")
    /\ Val(plays[i].details).weather_impact_score > 0
    /\ IsNone(Val(plays[i].details).is_indoor_game)

\* the input play behind a stored row of the game saved last
InputPlay(row) == LastGame.plays[row.play_id]

\* C6 (as claimed): the stored score_differential is the possession team's
\* score minus the opponent's, in line with is_winning_team and
\* is_losing_team.
C6_DifferentialFollowsPossession ==
  \A i \in 1..Len(plays) :
    (/\ ~IsNone(plays[i].details)
     /\ ~IsNone(last_call) /\ outcome = "returned" /\ LastGame.plays # <<>>
     /\ plays[i].game_id = LastId)
    => LET d == Val(plays[i].details)
       IN  /\ d.score_differential =
                (IF plays[i].possession_team_id = InputPlay(plays[i]).home_team_id
                 THEN d.home_score - d.visitor_score
                 ELSE d.visitor_score - d.home_score)
           /\ d.is_winning_team = (d.score_differential > 0)
           /\ d.is_losing_team = (d.score_differential < 0)

\* C6 (amended): the stored score_differential is home_score minus
\* visitor_score whichever team has possession; is_winning_team and
\* is_losing_team are the sign of the possession team's score minus the
\* opponent's, so they follow the stored differential when the home team
\* has possession and its negation otherwise.
C6_DifferentialIsHomeMinusVisitor ==
  \A i \in 1..Len(plays) :
    (/\ ~IsNone(plays[i].details)
     /\ ~IsNone(last_call) /\ outcome = "returned" /\ LastGame.plays # <<>>
     /\ plays[i].game_id = LastId)
    => LET d    == Val(plays[i].details)
           home == plays[i].possession_team_id = InputPlay(plays[i]).home_team_id
           own  == IF home THEN d.score_differential ELSE 0 - d.score_differential
       IN  /\ d.score_differential = d.home_score - d.visitor_score
           /\ d.is_winning_team = (own > 0)
           /\ d.is_losing_team = (own < 0)

\* C6 witness: a stored play of the visiting team in possession and behind,
\* whose stored differential is positive.
C6_Witness ==
  \E i \in 1..Len(plays) :
    /\ ~IsNone(plays[i].details)
    /\ plays[i].possession_team_id = "AWAY"
    /\ Val(plays[i].details).score_differential > 0
    /\ Val(plays[i].details).is_losing_team

(***************************************************************************)
(* The weather score on its own: a forecast text is scored, then another   *)
(* forecast comes in.                                                      *)
(***************************************************************************)
MaxWind == 40

WindSpeeds == {w \in 0..MaxWind : w % 5 = 0}

\* str(n) of a natural number
RECURSIVE Str(_)

Str(n) ==
  IF n < 10 THEN <<Digits[n + 1]>>
  ELSE Append(Str(n \div 10), Digits[(n % 10) + 1])

WeatherPrefixes == {<<>>, <<"7", "2", "F", ",", " ">>}

WeatherSuffixes == {<<>>, <<",", " ", "R", "a", "i", "n">>}

WeatherText(prefix, wind, suffix) ==
  prefix \o <<"W", "i", "n", "d", " ">> \o Str(wind) \o <<" ", "m", "p", "h">> \o suffix

WeatherGames ==
  {Game("W1", None, Some(WeatherText(prefix, wind, suffix)), <<>>) :
     prefix \in WeatherPrefixes, wind \in WindSpeeds, suffix \in WeatherSuffixes}

InitWeather ==
  /\ games = EmptyFunction
  /\ plays = <<>>
  /\ players = <<>>
  /\ game \in WeatherGames
  /\ last_call = None
  /\ outcome = "none"
  /\ repeat = FALSE
  /\ result = None
  /\ connections = <<>>
  /\ write_lock = None
  /\ scrape = None

\* self._calculate_weather_impact(game_info) on the forecast at hand
CalculateWeatherImpact ==
  /\ result' = Some([weather |-> game.game_info.weather,
                     impact |-> calculate_weather_impact(game.game_info)])
  /\ UNCHANGED <<games, plays, players, game, last_call, outcome, repeat,
                 connections, write_lock, scrape>>

NextForecast ==
  /\ game' \in WeatherGames
  /\ UNCHANGED <<games, plays, players, last_call, outcome, repeat, result,
                 connections, write_lock, scrape>>

NextWeather == CalculateWeatherImpact \/ NextForecast

SpecWeather == InitWeather /\ [][NextWeather]_vars

\* two forecast texts that differ only in the wind number, the second one
\* naming at least the wind of the first
WindRaised(first, second) ==
  \E prefix \in WeatherPrefixes, suffix \in WeatherSuffixes :
    \E low \in WindSpeeds, high \in WindSpeeds :
      /\ low <= high
      /\ first = Some(WeatherText(prefix, low, suffix))
      /\ second = Some(WeatherText(prefix, high, suffix))

\* C5 (as claimed): of two weather texts identical but for the wind number,
\* the one with the higher wind never scores lower.
C5_WindMonotone ==
  [][(~IsNone(result) /\ ~IsNone(result')
        /\ WindRaised(Val(result).weather, Val(result').weather))
     => Val(result').impact.weather_impact_score
          >= Val(result).impact.weather_impact_score]_vars

\* C5 failing run: "Wind 30 mph" scored 0.6 and "Wind 35 mph" is about to
\* score 0.5.
C5_Witness ==
  /\ result = Some([weather |-> Some(WeatherText(<<>>, 30, <<>>)),
                    impact |-> [weather_impact_score |-> 6, is_indoor_game |-> None]])
  /\ game.game_info.weather = Some(WeatherText(<<>>, 35, <<>>))
  /\ calculate_weather_impact(game.game_info).weather_impact_score = 5

(***************************************************************************)
(* The drive context on its own: the plays of a game are given, and the    *)
(* context of one of them is calculated.                                   *)
(***************************************************************************)
MaxDrivePlays == 3

\* yardline and time of day of the summaries: the clock moves forward from
\* the first to the second, the third text is not an ISO timestamp
DriveSummaries ==
  {Some(PlaySummary(PlayDetails(1, <<"4", ":", "0", "0">>, 0, 0, d[1], d[2]),
                    "HOME", <<>>, <<>>)) :
     d \in {<<25, Timestamp(0)>>, <<40, Timestamp(30)>>, <<40, BadTimestamp>>}}

DriveTemplates ==
  {Template(team, summary) :
     team \in TeamIds, summary \in {None} \cup DriveSummaries}

DriveGames ==
  {Game("D1", None, None, Plays(templates)) :
     templates \in ListsUpTo(DriveTemplates, MaxDrivePlays) \ {<<>>}}

InitDrive ==
  /\ games = EmptyFunction
  /\ plays = <<>>
  /\ players = <<>>
  /\ game \in DriveGames
  /\ last_call = None
  /\ outcome = "none"
  /\ repeat = FALSE
  /\ result = None
  /\ connections = <<>>
  /\ write_lock = None
  /\ scrape = None

\* self._calculate_drive_context(game_plays, current_play_index, current_play)
\* as the loop of _save_plays calls it for one play of the list
CalculateDriveContext ==
  /\ \E current_play_index \in 0..(Len(game.plays) - 1) :
       result' = Some([current_play_index |-> current_play_index,
                       context |-> calculate_drive_context(game.plays,
                                     current_play_index,
                                     At(game.plays, current_play_index))])
  /\ UNCHANGED <<games, plays, players, game, last_call, outcome, repeat,
                 connections, write_lock, scrape>>

NextDrive == CalculateDriveContext

SpecDrive == InitDrive /\ [][NextDrive]_vars

\* the play the context in result was calculated for, and the context
CurrentIndex == Val(result).current_play_index

Context == Val(result).context

Team(i) == At(game.plays, i).possession_team_id

\* possession changes among the plays 0..k: the plays whose team differs
\* from the team of the play before
PossessionChanges(k) == Cardinality({i \in 1..k : Team(i) # Team(i - 1)})

\* index of the first play of the drive that play k belongs to
DriveStart(k) ==
  CHOOSE j \in 0..k :
    /\ \A i \in j..k : Team(i) = Team(k)
    /\ j > 0 => Team(j - 1) # Team(k)

\* C7 (as claimed): drive_number of the play at index k is 1 plus the number
\* of possession changes among the plays 0..k, the first play of a new
\* drive included.
C7_DriveNumberCountsChanges ==
  ~IsNone(result) => Context.drive_number = 1 + PossessionChanges(CurrentIndex)

\* C7 failing run: the second play of the game belongs to the other team
\* and still gets drive number 1.
C7_Witness ==
  /\ ~IsNone(result)
  /\ CurrentIndex = 1
  /\ Team(1) # Team(0)
  /\ Context.drive_number = 1

\* C8 (as claimed): drive_start_yardline is the absolute yardline of the
\* first play of the current drive, also when the current play is that
\* first play. (Read where the first play of the drive carries a yardline.)
C8_DriveStartYardline ==
  (~IsNone(result) /\ HasSummary(At(game.plays, DriveStart(CurrentIndex))))
  => Context.drive_start_yardline =
       Some(Details(At(game.plays, DriveStart(CurrentIndex))).absolute_yardline_number)

\* C8 failing run: the current play opens its drive at a known yardline and
\* its drive_start_yardline is null.
C8_Witness ==
  /\ ~IsNone(result)
  /\ DriveStart(CurrentIndex) = CurrentIndex
  /\ HasSummary(At(game.plays, CurrentIndex))
  /\ IsNone(Context.drive_start_yardline)

\* the instant of play i, where its summary carries an ISO timestamp
Instant(i) ==
  IF HasSummary(At(game.plays, i))
  THEN fromisoformat(Details(At(game.plays, i)).time_of_day_utc)
  ELSE None

\* C9 (as claimed): drive_time_of_possession is the number of seconds from
\* the first play of the drive to the current play, and is not negative.
\* (Read where both plays carry a timestamp and the clock has not gone back.)
C9_TimeOfPossessionElapsed ==
  (/\ ~IsNone(result)
   /\ ~IsNone(Instant(DriveStart(CurrentIndex)))
   /\ ~IsNone(Instant(CurrentIndex))
   /\ Val(Instant(DriveStart(CurrentIndex))) <= Val(Instant(CurrentIndex)))
  => /\ Context.drive_time_of_possession =
          Some(Val(Instant(CurrentIndex)) - Val(Instant(DriveStart(CurrentIndex))))
     /\ Val(Context.drive_time_of_possession) >= 0

\* C9 failing run: the drive began 30 seconds before the current play and
\* its drive_time_of_possession is -30.
C9_Witness ==
  /\ ~IsNone(result)
  /\ CurrentIndex > DriveStart(CurrentIndex)
  /\ Instant(DriveStart(CurrentIndex)) = Some(0)
  /\ Instant(CurrentIndex) = Some(30)
  /\ Context.drive_time_of_possession = Some(0 - 30)

\* C10: drive_play_number, and drive_plays_so_far with it, is the length of
\* the maximal run of plays of one possession team that ends at the current
\* play: 1 on the first play after a change, one more on each play after.
C10_DrivePlayNumberIsRunLength ==
  ~IsNone(result)
  => /\ Context.drive_play_number = CurrentIndex - DriveStart(CurrentIndex) + 1
     /\ Context.drive_plays_so_far = Context.drive_play_number

\* C10 witness: the second play of a drive that began after a possession
\* change has drive_play_number 2.
C10_Witness ==
  /\ ~IsNone(result)
  /\ CurrentIndex = 2
  /\ DriveStart(CurrentIndex) = 1
  /\ Context.drive_play_number = 2

(***************************************************************************)
(* The momentum indicators on their own: the plays of a game are given,    *)
(* and the indicators of one of them are calculated.                       *)
(***************************************************************************)
MaxMomentumPlays == 3

\* summaries that differ in is_scoring and is_change_of_possession
MomentumSummaries ==
  {Some(PlaySummary([PlayDetails(1, <<"4", ":", "0", "0">>, 0, 0, 25, Timestamp(0))
                       EXCEPT !.is_scoring = f[1],
                              !.is_change_of_possession = f[2]],
                    "HOME", <<>>, <<>>)) :
     f \in BOOLEAN \X BOOLEAN}

MomentumTemplates ==
  {Template(team, summary) :
     team \in TeamIds, summary \in {None} \cup MomentumSummaries}

MomentumGames ==
  {Game("M1", None, None, Plays(templates)) :
     templates \in ListsUpTo(MomentumTemplates, MaxMomentumPlays) \ {<<>>}}

InitMomentum ==
  /\ games = EmptyFunction
  /\ plays = <<>>
  /\ players = <<>>
  /\ game \in MomentumGames
  /\ last_call = None
  /\ outcome = "none"
  /\ repeat = FALSE
  /\ result = None
  /\ connections = <<>>
  /\ write_lock = None
  /\ scrape = None

\* self._calculate_momentum_indicators(game_plays, current_play_index,
\* current_play) as _calculate_game_context_features calls it
CalculateMomentumIndicators ==
  /\ \E current_play_index \in 0..(Len(game.plays) - 1) :
       result' = Some([current_play_index |-> current_play_index,
                       context |-> calculate_momentum_indicators(game.plays,
                                     current_play_index,
                                     At(game.plays, current_play_index))])
  /\ UNCHANGED <<games, plays, players, game, last_call, outcome, repeat,
                 connections, write_lock, scrape>>

NextMomentum == CalculateMomentumIndicators

SpecMomentum == InitMomentum /\ [][NextMomentum]_vars

\* whether play i is a turnover charged to the team of play k (own) or to
\* the other team (~own)
IsTurnoverOf(i, k, own) ==
  /\ HasSummary(At(game.plays, i))
  /\ Details(At(game.plays, i)).is_change_of_possession
  /\ (Team(i) = Team(k)) = own

\* turnovers among the plays i..k-1, counted play by play
RECURSIVE TurnoversFrom(_, _, _)

TurnoversFrom(i, k, own) ==
  IF i >= k THEN 0
  ELSE (IF IsTurnoverOf(i, k, own) THEN 1 ELSE 0) + TurnoversFrom(i + 1, k, own)

PersonnelIds(g) ==
  {Personnel(g.plays)[i].nfl_id : i \in 1..Len(Personnel(g.plays))}

\* C12: save_game never deletes a player row and never changes a player
\* that is not in the personnel lists of the game being saved; the set of
\* stored player ids only grows.
C12_PlayersOnlyGrow ==
  [][/\ DOMAIN players \subseteq DOMAIN players'
     /\ \A id \in DOMAIN players :
          id \notin PersonnelIds(LastGame') => players'[id] = players[id]]_vars

\* C12 witness: a save committed that updated one stored player while
\* another stored player, absent from the game, is still there.
C12_Witness ==
  /\ outcome = "returned"
  /\ PersonnelIds(LastGame) = {1}
  /\ players[1] = TradedPlayer
  /\ 2 \in DOMAIN players
  /\ players[2] = AwayPlayer

(***************************************************************************)
(* The time-remaining calculator on its own: a play comes with its quarter *)
(* and its clock text, and its time context is calculated.                 *)
(***************************************************************************)
MaxQuarter == 5

MaxMinutes == 15

\* the seconds shown on the clocks
ClockSecondValues == {0, 1, 45, 59}

\* the clock text MM:SS of minutes and seconds, seconds on two digits
ClockText(minutes, seconds) ==
  Str(minutes) \o <<":">> \o (IF seconds < 10 THEN <<"0">> ELSE <<>>) \o Str(seconds)

GoodClocks ==
  {ClockText(minutes, seconds) :
     minutes \in 0..MaxMinutes, seconds \in ClockSecondValues}

\* a missing clock and texts that are not MM:SS
BadClocks ==
  {<<>>, <<"x">>, <<"5">>, <<"1", ":", "x", "x">>, <<"a", ":", "3", "0">>,
   <<":", "3", "0">>, <<"1", ":">>}

ClockGames ==
  {Game("T1", None, None,
        Plays(<<Template("HOME",
                  Some(PlaySummary(PlayDetails(quarter, game_clock, 0, 0, 25, Timestamp(0)),
                                   "HOME", <<>>, <<>>)))>>)) :
     quarter \in 0..MaxQuarter, game_clock \in GoodClocks \cup BadClocks}

InitClock ==
  /\ games = EmptyFunction
  /\ plays = <<>>
  /\ players = <<>>
  /\ game \in ClockGames
  /\ last_call = None
  /\ outcome = "none"
  /\ repeat = FALSE
  /\ result = None
  /\ connections = <<>>
  /\ write_lock = None
  /\ scrape = None

\* self._calculate_time_remaining(play_details.quarter, play_details.game_clock)
CalculateTimeRemaining ==
  /\ result' = Some([current_play_index |-> 0,
                     context |-> calculate_time_remaining(
                                   Details(At(game.plays, 0)).quarter,
                                   Details(At(game.plays, 0)).game_clock)])
  /\ UNCHANGED <<games, plays, players, game, last_call, outcome, repeat,
                 connections, write_lock, scrape>>

NextClock == CalculateTimeRemaining

SpecClock == InitClock /\ [][NextClock]_vars

\* quarter and clock text of the play at hand
Quarter == Details(At(game.plays, 0)).quarter

Clock == Details(At(game.plays, 0)).game_clock

\* a flag that is null: neither true nor false
IsNullFlag(flag) == flag \notin BOOLEAN

\* C13 (as claimed): when the clock text is missing or is not MM:SS,
\* time_remaining_half, time_remaining_game and is_two_minute_drill are all
\* three null.
C13_BadClockAllNull ==
  (~IsNone(result) /\ Clock \in BadClocks)
  => /\ IsNone(Context.time_remaining_half)
     /\ IsNone(Context.time_remaining_game)
     /\ IsNullFlag(Context.is_two_minute_drill)

\* C13 (amended): when the clock text is missing or is not MM:SS,
\* time_remaining_half and time_remaining_game are null and
\* is_two_minute_drill is false; the calculation returns in every case.
C13_BadClockNullAndFalse ==
  (~IsNone(result) /\ Clock \in BadClocks)
  => /\ IsNone(Context.time_remaining_half)
     /\ IsNone(Context.time_remaining_game)
     /\ Context.is_two_minute_drill = FALSE

\* C13 witness: the time context of a last-quarter play whose clock reads
\* "1:xx" was calculated, and its flag is false.
C13_Witness ==
  /\ ~IsNone(result)
  /\ Quarter = 4
  /\ Clock = <<"1", ":", "x", "x">>
  /\ IsNone(Context.time_remaining_game)
  /\ Context.is_two_minute_drill = FALSE

\* seconds left in the half when the clock of quarter q shows m:s
HalfSeconds(q, m, s) == 60 * m + s + (IF q \in {1, 3} THEN 900 ELSE 0)

\* C14: in quarters 1..4 with a clock MM:SS, is_two_minute_drill is true
\* exactly when the seconds left in the half are at most 120: clock seconds
\* plus 900 in quarters 1 and 3, clock seconds in quarters 2 and 4; so never
\* in quarters 1 and 3.
C14_TwoMinuteDrill ==
  \A m \in 0..MaxMinutes, s \in ClockSecondValues :
    (~IsNone(result) /\ Quarter \in 1..4 /\ Clock = ClockText(m, s))
    => /\ Context.time_remaining_half = Some(HalfSeconds(Quarter, m, s))
       /\ Context.is_two_minute_drill = (HalfSeconds(Quarter, m, s) <= 120)
       /\ Quarter \in {1, 3} => ~Context.is_two_minute_drill

\* C14 witness: second quarter, clock 2:00, the flag is true.
C14_Witness ==
  /\ ~IsNone(result)
  /\ Quarter = 2
  /\ Clock = ClockText(2, 0)
  /\ Context.is_two_minute_drill

(***************************************************************************)
(* The field position context on its own: a play comes with its absolute   *)
(* yardline, and its field position is calculated.                         *)
(***************************************************************************)
MaxYardline == 100

YardlineGames ==
  {Game("F1", None, None,
        Plays(<<Template("HOME",
                  Some(PlaySummary(PlayDetails(1, <<"4", ":", "0", "0">>, 0, 0,
                                               yardline, Timestamp(0)),
                                   "HOME", <<>>, <<>>)))>>)) :
     yardline \in 0..MaxYardline}

InitField ==
  /\ games = EmptyFunction
  /\ plays = <<>>
  /\ players = <<>>
  /\ game \in YardlineGames
  /\ last_call = None
  /\ outcome = "none"
  /\ repeat = FALSE
  /\ result = None
  /\ connections = <<>>
  /\ write_lock = None
  /\ scrape = None

\* self._calculate_field_position_context(play_details)
CalculateFieldPosition ==
  /\ result' = Some([current_play_index |-> 0,
                     context |-> calculate_field_position_context(
                                   Details(At(game.plays, 0)))])
  /\ UNCHANGED <<games, plays, players, game, last_call, outcome, repeat,
                 connections, write_lock, scrape>>

NextField == CalculateFieldPosition

SpecField == InitField /\ [][NextField]_vars

Yardline == Details(At(game.plays, 0)).absolute_yardline_number

\* C15: for an absolute yardline y in 0..100 the category is own_territory
\* when y <= 40, midfield when 40 < y <= 60, opponent_territory when
\* 60 < y <= 80 and red_zone when y > 80; yards_from_own_endzone is y and
\* the two distances add up to 100.
C15_FieldPositionCategories ==
  (~IsNone(result) /\ Yardline \in 0..100)
  => /\ (Yardline <= 40) = (Context.field_position_category = "own_territory")
     /\ (40 < Yardline /\ Yardline <= 60) = (Context.field_position_category = "midfield")
     /\ (60 < Yardline /\ Yardline <= 80)
          = (Context.field_position_category = "opponent_territory")
     /\ (Yardline > 80) = (Context.field_position_category = "red_zone")
     /\ Context.yards_from_own_endzone = Yardline
     /\ Context.yards_from_own_endzone + Context.yards_from_opponent_endzone = 100

\* C15 witness: yardline 80 is opponent_territory, 20 yards from the
\* opponent's end zone.
C15_Witness ==
  /\ ~IsNone(result)
  /\ Yardline = 80
  /\ Context.field_position_category = "opponent_territory"
  /\ Context.yards_from_opponent_endzone = 20

(***************************************************************************)
(* The defensive personnel on its own: the defence of a play is analysed   *)
(* as _save_plays does it, or from the API's dicts as the tests do it.     *)
(***************************************************************************)
MaxDefenders == 3

\* position and position group of the defenders
DefenderKinds == {<<"DE", "DL">>, <<"LB", "LB">>, <<"SS", "DB">>, <<"CB", "DB">>}

\* a Player object of the visiting team
Defender(kind) ==
  [nfl_id |-> 2, gsis_id |-> "00-0000002", position |-> kind[1],
   position_group |-> kind[2], team_id |-> "AWAY"]

\* the API's dict of a player: the keys are the aliases
ApiDict(player) ==
  [nflId |-> player.nfl_id, gsisId |-> player.gsis_id, position |-> player.position,
   positionGroup |-> player.position_group, teamId |-> player.team_id]

DefenseGames ==
  {Game("P1", None, None,
        Plays(<<Template("HOME",
                  Some(PlaySummary(PlayDetails(1, <<"4", ":", "0", "0">>, 0, 0, 25,
                                               Timestamp(0)),
                                   "HOME", <<>>,
                                   [i \in 1..Len(kinds) |-> Defender(kinds[i])])))>>)) :
     kinds \in ListsUpTo(DefenderKinds, MaxDefenders)}

InitDefense ==
  /\ games = EmptyFunction
  /\ plays = <<>>
  /\ players = <<>>
  /\ game \in DefenseGames
  /\ last_call = None
  /\ outcome = "none"
  /\ repeat = FALSE
  /\ result = None
  /\ connections = <<>>
  /\ write_lock = None
  /\ scrape = None

\* _save_plays: defensive_players_dict.append(player.dict()), then
\* self._analyze_defensive_personnel(defensive_players_dict)
AnalyzeSavedPlay ==
  /\ result' = Some([current_play_index |-> 0,
                     context |-> analyze_defensive_personnel(
                       DefensivePlayersDict(
                         DefensivePlayers(Val(At(game.plays, 0).summary))))])
  /\ UNCHANGED <<games, plays, players, game, last_call, outcome, repeat,
                 connections, write_lock, scrape>>

\* _analyze_defensive_personnel called on the API's dicts
AnalyzeApiDicts ==
  /\ result' = Some([current_play_index |-> 0,
                     api |-> TRUE,
                     context |-> analyze_defensive_personnel(
                       [i \in 1..Len(DefensivePlayers(Val(At(game.plays, 0).summary))) |->
                          ApiDict(DefensivePlayers(Val(At(game.plays, 0).summary))[i])])])
  /\ UNCHANGED <<games, plays, players, game, last_call, outcome, repeat,
                 connections, write_lock, scrape>>

NextDefense == AnalyzeSavedPlay \/ AnalyzeApiDicts

SpecDefense == InitDefense /\ [][NextDefense]_vars

\* the defenders of the play at hand
Defenders == DefensivePlayers(Val(At(game.plays, 0).summary))

\* number of defenders whose position group is the given one
InGroup(position_group) ==
  Cardinality({i \in 1..Len(Defenders) : Defenders[i].position_group = position_group})

\* C16 (as claimed): for a non-empty list of defensive players dl_count,
\* lb_count and db_count are the numbers of players of position group DL,
\* LB and DB, and box_count is dl_count + lb_count, plus 1 when at least one
\* player has position SS (several SS still add 1).
C16_DefensiveCounts ==
  (~IsNone(result) /\ Defenders # <<>>)
  => /\ Context.dl_count = InGroup("DL")
     /\ Context.lb_count = InGroup("LB")
     /\ Context.db_count = InGroup("DB")
     /\ Context.box_count =
          Context.dl_count + Context.lb_count
            + (IF \E i \in 1..Len(Defenders) : Defenders[i].position = "SS"
               THEN 1 ELSE 0)

\* C16 failing run: the defence of a saved play has a defensive end and a
\* linebacker, and its dl_count, lb_count and box_count are 0.
C16_Witness ==
  /\ ~IsNone(result)
  /\ "api" \notin DOMAIN Val(result)
  /\ InGroup("DL") = 1 /\ InGroup("LB") = 1
  /\ Context.dl_count = 0
  /\ Context.lb_count = 0
  /\ Context.box_count = 0

(***************************************************************************)
(* _extract_play_details and _extract_play_result_metrics: the keys that   *)
(* depend on the pass, run and field goal keywords. Every key of the two   *)
(* results is computed from the lower-cased description on its own; the    *)
(* formation, yardage, name, penalty, punt and kickoff keys are left out.  *)
(***************************************************************************)
PassLength(desc_lower) ==
  IF ~Contains(desc_lower, <<"p", "a", "s", "s">>) THEN None
  ELSE IF Contains(desc_lower, <<"s", "h", "o", "r", "t">>) THEN Some("short")
  ELSE IF Contains(desc_lower, <<"d", "e", "e", "p">>) THEN Some("deep")
  ELSE Some("medium")

PassLocation(desc_lower) ==
  IF ~Contains(desc_lower, <<"p", "a", "s", "s">>) THEN None
  ELSE IF Contains(desc_lower, <<"l", "e", "f", "t">>) THEN Some("left")
  ELSE IF Contains(desc_lower, <<"r", "i", "g", "h", "t">>) THEN Some("right")
  ELSE IF Contains(desc_lower, <<"m", "i", "d", "d", "l", "e">>) THEN Some("middle")
  ELSE None

\* "if 'rush' in desc_lower or 'run' in desc_lower": the direction keywords
RunDirection(desc_lower) ==
  IF ~(Contains(desc_lower, <<"r", "u", "s", "h">>) \/ Contains(desc_lower, <<"r", "u", "n">>)) THEN None
  ELSE IF \/ Contains(desc_lower, <<"l", "e", "f", "t", " ", "e", "n", "d">>)
          \/ Contains(desc_lower, <<"l", "e", "f", "t", " ", "t", "a", "c", "k", "l", "e">>)
          \/ Contains(desc_lower, <<"l", "e", "f", "t", " ", "g", "u", "a", "r", "d">>) THEN Some("left")
  ELSE IF \/ Contains(desc_lower, <<"r", "i", "g", "h", "t", " ", "e", "n", "d">>)
          \/ Contains(desc_lower, <<"r", "i", "g", "h", "t", " ", "t", "a", "c", "k", "l", "e">>)
          \/ Contains(desc_lower, <<"r", "i", "g", "h", "t", " ", "g", "u", "a", "r", "d">>) THEN Some("right")
  ELSE IF \/ Contains(desc_lower, <<"m", "i", "d", "d", "l", "e">>)
          \/ Contains(desc_lower, <<"c", "e", "n", "t", "e", "r">>) THEN Some("middle")
  ELSE None

NoPlayDetails ==
  [pass_length |-> None, pass_location |-> None, run_direction |-> None]

PlayDetailsOf(desc_lower) ==
  [pass_length |-> PassLength(desc_lower),
   pass_location |-> PassLocation(desc_lower),
   run_direction |-> RunDirection(desc_lower)]

extract_play_details(description) ==
  IF description = <<>> THEN NoPlayDetails
  ELSE PlayDetailsOf(lower(description))

\* the gaps dictionary in its order: the first gap one of whose patterns
\* occurs in the description
RunGapOf(desc_lower) ==
  IF Contains(desc_lower, <<"l", "e", "f", "t", " ", "e", "n", "d">>) \/ Contains(desc_lower, <<"s", "w", "e", "p", "t", " ", "l", "e", "f", "t">>)
    THEN Some("left end")
  ELSE IF Contains(desc_lower, <<"l", "e", "f", "t", " ", "t", "a", "c", "k", "l", "e">>) THEN Some("left tackle")
  ELSE IF Contains(desc_lower, <<"l", "e", "f", "t", " ", "g", "u", "a", "r", "d">>) THEN Some("left guard")
  ELSE IF Contains(desc_lower, <<"u", "p", " ", "t", "h", "e", " ", "m", "i", "d", "d", "l", "e">>) \/ Contains(desc_lower, <<"m", "i", "d", "d", "l", "e">>)
    THEN Some("middle")
  ELSE IF Contains(desc_lower, <<"r", "i", "g", "h", "t", " ", "g", "u", "a", "r", "d">>) THEN Some("right guard")
  ELSE IF Contains(desc_lower, <<"r", "i", "g", "h", "t", " ", "t", "a", "c", "k", "l", "e">>) THEN Some("right tackle")
  ELSE IF Contains(desc_lower, <<"r", "i", "g", "h", "t", " ", "e", "n", "d">>) \/ Contains(desc_lower, <<"s", "w", "e", "p", "t", " ", "r", "i", "g", "h", "t">>)
    THEN Some("right end")
  ELSE None

\* ('rush' in play_type.lower() or 'run' in desc_lower) and 'pass' not in desc_lower
RunGap(desc_lower, type_lower) ==
  IF /\ Contains(type_lower, <<"r", "u", "s", "h">>) \/ Contains(desc_lower, <<"r", "u", "n">>)
     /\ ~Contains(desc_lower, <<"p", "a", "s", "s">>)
  THEN RunGapOf(desc_lower)
  ELSE None

\* if 'good' ... elif 'no good' ... elif 'blocked'
FieldGoalResult(desc_lower) ==
  IF Contains(desc_lower, <<"g", "o", "o", "d">>) THEN Some("GOOD")
  ELSE IF Contains(desc_lower, <<"n", "o", " ", "g", "o", "o", "d">>) THEN Some("NO GOOD")
  ELSE IF Contains(desc_lower, <<"b", "l", "o", "c", "k", "e", "d">>) THEN Some("BLOCKED")
  ELSE None

IsFieldGoal(desc_lower) == Contains(desc_lower, <<"f", "i", "e", "l", "d", " ", "g", "o", "a", "l">>)

NoPlayResultMetrics ==
  [run_gap |-> None, is_field_goal |-> None, field_goal_result |-> None]

PlayResultMetrics(desc_lower, type_lower) ==
  [run_gap |-> RunGap(desc_lower, type_lower),
   is_field_goal |-> IF IsFieldGoal(desc_lower) THEN Some(TRUE) ELSE None,
   field_goal_result |->
     IF IsFieldGoal(desc_lower) THEN FieldGoalResult(desc_lower) ELSE None]

extract_play_result_metrics(description, play_type) ==
  IF description = <<>> THEN NoPlayResultMetrics
  ELSE PlayResultMetrics(lower(description), lower(play_type))

(***************************************************************************)
(* The description parsers on their own: a play comes with its description *)
(* and play type, and one of the two parsers reads it.                     *)
(***************************************************************************)
MaxPhrases == 3

Phrases ==
  {<<"f", "i", "e", "l", "d", " ", "g", "o", "a", "l">>, <<"i", "s", " ", "G", "O", "O", "D">>, <<"i", "s", " ", "N", "o", " ", "G", "o", "o", "d">>, <<"B", "L", "O", "C", "K", "E", "D">>,
   <<"p", "a", "s", "s">>, <<"r", "u", "n">>, <<"l", "e", "f", "t", " ", "e", "n", "d">>, <<"m", "i", "d", "d", "l", "e">>}

\* the phrases of a list, each followed by a blank
RECURSIVE Sentence(_)

Sentence(phrases) ==
  IF phrases = <<>> THEN <<>>
  ELSE Head(phrases) \o <<" ">> \o Sentence(Tail(phrases))

Descriptions == {Sentence(phrases) : phrases \in ListsUpTo(Phrases, MaxPhrases)}

PlayTypes == {<<"p", "l", "a", "y", "_", "t", "y", "p", "e", "_", "p", "a", "s", "s">>, <<"p", "l", "a", "y", "_", "t", "y", "p", "e", "_", "r", "u", "s", "h">>, <<"p", "l", "a", "y", "_", "t", "y", "p", "e", "_", "f", "i", "e", "l", "d", "_", "g", "o", "a", "l">>}

DescriptionGames ==
  {Game("X1", None, None,
        Plays(<<Template("HOME",
                  Some(PlaySummary(
                         Merge(PlayDetails(1, <<"4", ":", "0", "0">>, 0, 0, 25, Timestamp(0)),
                               [play_description |-> description,
                                play_type |-> play_type]),
                         "HOME", <<>>, <<>>)))>>)) :
     description \in Descriptions, play_type \in PlayTypes}

InitDescription ==
  /\ games = EmptyFunction
  /\ plays = <<>>
  /\ players = <<>>
  /\ game \in DescriptionGames
  /\ last_call = None
  /\ outcome = "none"
  /\ repeat = FALSE
  /\ result = None
  /\ connections = <<>>
  /\ write_lock = None
  /\ scrape = None

\* self._extract_play_details(play_details.play_description)
ExtractPlayDetails ==
  /\ result' = Some([current_play_index |-> 0,
                     call |-> "play_details",
                     context |-> extract_play_details(
                                   Details(At(game.plays, 0)).play_description)])
  /\ UNCHANGED <<games, plays, players, game, last_call, outcome, repeat,
                 connections, write_lock, scrape>>

\* self._extract_play_result_metrics(play_details.play_description,
\* play_details.play_type)
ExtractPlayResultMetrics ==
  /\ result' = Some([current_play_index |-> 0,
                     call |-> "play_result_metrics",
                     context |-> extract_play_result_metrics(
                                   Details(At(game.plays, 0)).play_description,
                                   Details(At(game.plays, 0)).play_type)])
  /\ UNCHANGED <<games, plays, players, game, last_call, outcome, repeat,
                 connections, write_lock, scrape>>

NextDescription == ExtractPlayDetails \/ ExtractPlayResultMetrics

SpecDescription == InitDescription /\ [][NextDescription]_vars

\* whether the description of the play at hand has the words, in any case
Says(words) == Contains(lower(Details(At(game.plays, 0)).play_description), words)

Metrics == ~IsNone(result) /\ Val(result).call = "play_result_metrics"

\* C17 (as claimed): for a description with "field goal", a description
\* with "no good" yields NO GOOD, one with "blocked" and without "good"
\* yields BLOCKED, and GOOD is given only when the kick is said to be good
\* and not "no good".
C17_FieldGoalResult ==
  (Metrics /\ Says(<<"f", "i", "e", "l", "d", " ", "g", "o", "a", "l">>))
  => /\ Says(<<"n", "o", " ", "g", "o", "o", "d">>) => Context.field_goal_result = Some("NO GOOD")
     /\ (Says(<<"b", "l", "o", "c", "k", "e", "d">>) /\ ~Says(<<"g", "o", "o", "d">>))
          => Context.field_goal_result = Some("BLOCKED")
     /\ Context.field_goal_result = Some("GOOD")
          => (Says(<<"g", "o", "o", "d">>) /\ ~Says(<<"n", "o", " ", "g", "o", "o", "d">>))

\* C17 failing run: "field goal is No Good" has field_goal_result GOOD.
C17_Witness ==
  /\ Metrics
  /\ Details(At(game.plays, 0)).play_description
       = Sentence(<<<<"f", "i", "e", "l", "d", " ", "g", "o", "a", "l">>, <<"i", "s", " ", "N", "o", " ", "G", "o", "o", "d">>>>)
  /\ Context.field_goal_result = Some("GOOD")

\* C18 (as claimed): whenever the description contains "pass", run_direction
\* of _extract_play_details and run_gap of _extract_play_result_metrics are
\* null, also when it contains "run" and a gap keyword.
C18_NoRunFieldsOnPass ==
  (~IsNone(result) /\ Says(<<"p", "a", "s", "s">>))
  => /\ Val(result).call = "play_details" => IsNone(Context.run_direction)
     /\ Val(result).call = "play_result_metrics" => IsNone(Context.run_gap)

\* C18 failing run: "pass run left end" has run_direction left.
C18_Witness ==
  /\ ~IsNone(result)
  /\ Val(result).call = "play_details"
  /\ Details(At(game.plays, 0)).play_description
       = Sentence(<<<<"p", "a", "s", "s">>, <<"r", "u", "n">>, <<"l", "e", "f", "t", " ", "e", "n", "d">>>>)
  /\ Context.run_direction = Some("left")

\* ---------------------------------------------------------------------
\* SpecHeadToHead: the head-to-head record over stores of old meetings.
\* Dates are day numbers: the date texts are ISO dates, whose order as
\* texts is the order of the days.
\* ---------------------------------------------------------------------

MaxMeetings == 11

MeetingIds ==
  <<"M01", "M02", "M03", "M04", "M05", "M06", "M07",
    "M08", "M09", "M10", "M11", "M12", "M13", "M14">>

\* <<home_team_id, away_team_id, home_score_total, away_score_total>>
MeetingKinds ==
  {<<"HOME", "AWAY", 24, 17>>, <<"HOME", "AWAY", 17, 24>>,
   <<"HOME", "AWAY", 20, 20>>, <<"AWAY", "HOME", 24, 17>>,
   <<"AWAY", "HOME", 17, 24>>, <<"AWAY", "HOME", 20, 20>>,
   <<"HOME", "THIRD", 24, 17>>}

MeetingRow(day, kind) ==
  [id |-> MeetingIds[day],
   season |-> 2024,
   date |-> day,
   weather |-> None,
   venue_roof_type |-> None,
   home_team_id |-> kind[1],
   away_team_id |-> kind[2],
   home_score_total |-> kind[3],
   away_score_total |-> kind[4]]

DayOf(id) == CHOOSE day \in DOMAIN MeetingIds : MeetingIds[day] = id

\* `count` meetings on the days 1..count; the oldest is of one kind and
\* the later ones of another
MeetingStore(count, oldest, later) ==
  [id \in {MeetingIds[day] : day \in 1..count} |->
     MeetingRow(DayOf(id), IF DayOf(id) = 1 THEN oldest ELSE later)]

MeetingStores ==
  {MeetingStore(count, oldest, later) :
     count \in 0..MaxMeetings, oldest \in MeetingKinds,
     later \in MeetingKinds}

HeadToHeadInputs ==
  {[Game("H1", None, None, <<>>) EXCEPT !.game_info.date = day] :
     day \in 1..(MaxMeetings + 1)}

InitHeadToHead ==
  /\ games \in MeetingStores
  /\ plays = <<>>
  /\ players = <<>>
  /\ game \in HeadToHeadInputs
  /\ last_call = None
  /\ outcome = "none"
  /\ repeat = FALSE
  /\ result = None
  /\ connections = <<>>
  /\ write_lock = None
  /\ scrape = None

\* self._calculate_head_to_head_stats(home_team_id, away_team_id,
\* game_date, session)
CalculateHeadToHeadStats ==
  /\ result' = Some([current_play_index |-> 0,
                     context |-> calculate_head_to_head_stats(
                                   games, game.teams.home_id,
                                   game.teams.away_id,
                                   game.game_info.date)])
  /\ UNCHANGED <<games, plays, players, game, last_call, outcome, repeat,
                 connections, write_lock, scrape>>

NextHeadToHead == CalculateHeadToHeadStats

SpecHeadToHead == InitHeadToHead /\ [][NextHeadToHead]_vars

\* The old meetings of the two teams of the game, dated before it
PriorMeetings ==
  {id \in DOMAIN games :
     /\ {games[id].home_team_id, games[id].away_team_id}
          = {game.teams.home_id, game.teams.away_id}
     /\ games[id].date < game.game_info.date}

\* The (at most 10) latest of them
RecentMeetings ==
  {id \in PriorMeetings :
     Cardinality({j \in PriorMeetings : games[j].date > games[id].date})
       < 10}

\* The points of a team in an old meeting, whichever side it was on
PointsOf(team, row) ==
  IF row.home_team_id = team THEN row.home_score_total
  ELSE row.away_score_total

WonBy(team, other) ==
  {id \in RecentMeetings :
     PointsOf(team, games[id]) > PointsOf(other, games[id])}

\* C19: over the at most 10 latest meetings of the two teams dated
\* strictly before the game, head_to_head_home_wins is the number won by
\* the team that is home in the game and head_to_head_away_wins the
\* number won by the team that is away in it, whichever side each was on;
\* a tied meeting counts for neither.
C19_HeadToHeadWins ==
  ~IsNone(result) =>
    /\ Context.head_to_head_home_wins
         = Cardinality(WonBy(game.teams.home_id, game.teams.away_id))
    /\ Context.head_to_head_away_wins
         = Cardinality(WonBy(game.teams.away_id, game.teams.home_id))

\* One old meeting, a 20-20 tie, has been counted
C19_Witness ==
  /\ ~IsNone(result)
  /\ RecentMeetings = {"M01"}
  /\ games["M01"].home_score_total = games["M01"].away_score_total
  /\ Context.head_to_head_away_wins = 1

\* ---------------------------------------------------------------------
\* SpecTeamStats: the rates over stores of earlier games and their plays
\* ---------------------------------------------------------------------

MaxStatPlays == 2

\* <<home_team_id, away_team_id, season>> of the games of the days 1, 2...
StatSchedules ==
  {<<>>,
   <<<<"HOME", "AWAY", 2024>>>>,
   <<<<"HOME", "AWAY", 2024>>, <<"AWAY", "HOME", 2024>>>>,
   <<<<"HOME", "THIRD", 2024>>, <<"THIRD", "AWAY", 2024>>>>,
   <<<<"HOME", "AWAY", 2023>>, <<"HOME", "AWAY", 2024>>>>}

StatIds == <<"S1", "S2">>

StatDayOf(id) == CHOOSE day \in DOMAIN StatIds : StatIds[day] = id

StatStore(schedule) ==
  [id \in {StatIds[day] : day \in DOMAIN schedule} |->
     [id |-> id,
      season |-> schedule[StatDayOf(id)][3],
      date |-> StatDayOf(id),
      weather |-> None,
      venue_roof_type |-> None,
      home_team_id |-> schedule[StatDayOf(id)][1],
      away_team_id |-> schedule[StatDayOf(id)][2],
      home_score_total |-> 0,
      away_score_total |-> 0]]

StatStores == {StatStore(schedule) : schedule \in StatSchedules}

\* The stored plays of the games of a store
StatPlayRows(table) ==
  [game_id : DOMAIN table,
   possession_team_id : {"HOME", "AWAY"},
   yards_gained : {None, Some(5)},
   is_turnover : {None, Some(TRUE)}]

StatInputs ==
  {[Game("N1", None, None, <<>>) EXCEPT !.game_info.date = day] :
     day \in {2, 3}}

InitTeamStats ==
  /\ games \in StatStores
  /\ plays \in ListsUpTo(StatPlayRows(games), MaxStatPlays)
  /\ players = <<>>
  /\ game \in StatInputs
  /\ last_call = None
  /\ outcome = "none"
  /\ repeat = FALSE
  /\ result = None
  /\ connections = <<>>
  /\ write_lock = None
  /\ scrape = None

\* "home_stats = self._calculate_team_stats(home_team_id, game_date,
\* season, True, session)"
CalculateHomeTeamStats ==
  /\ result' = Some([current_play_index |-> 0,
                     team_id |-> game.teams.home_id,
                     context |-> calculate_team_stats(
                                   games, games, plays, game.teams.home_id,
                                   game.game_info.date,
                                   game.game_info.season)])
  /\ UNCHANGED <<games, plays, players, game, last_call, outcome, repeat,
                 connections, write_lock, scrape>>

\* "away_stats = self._calculate_team_stats(away_team_id, game_date,
\* season, False, session)"
CalculateAwayTeamStats ==
  /\ result' = Some([current_play_index |-> 0,
                     team_id |-> game.teams.away_id,
                     context |-> calculate_team_stats(
                                   games, games, plays, game.teams.away_id,
                                   game.game_info.date,
                                   game.game_info.season)])
  /\ UNCHANGED <<games, plays, players, game, last_call, outcome, repeat,
                 connections, write_lock, scrape>>

NextTeamStats == CalculateHomeTeamStats \/ CalculateAwayTeamStats

SpecTeamStats == InitTeamStats /\ [][NextTeamStats]_vars

\* The team whose rates were computed
StatTeam == Val(result).team_id

\* Its qualifying earlier games: it played, the same season, dated before
\* the game
QualifyingGames ==
  {id \in DOMAIN games :
     /\ StatTeam \in {games[id].home_team_id, games[id].away_team_id}
     /\ games[id].season = game.game_info.season
     /\ games[id].date < game.game_info.date}

\* The turnover plays of those games, with the team in possession or not
TurnoverPlays(held) ==
  {i \in DOMAIN plays :
     /\ plays[i].game_id \in QualifyingGames
     /\ plays[i].is_turnover = Some(TRUE)
     /\ (plays[i].possession_team_id = StatTeam) = held}

\* C20: turnover_rate (takeaway_rate) of a team is the number of plays,
\* over all its qualifying earlier games, on which the team held (did not
\* hold) possession and is_turnover is true, divided by the number of
\* those games; every such play is counted, those with a null
\* yards_gained too.
C20_TurnoverRates ==
  (~IsNone(result) /\ QualifyingGames # {}) =>
    /\ Context.turnover_rate
         = Ratio(Cardinality(TurnoverPlays(TRUE)),
                 Cardinality(QualifyingGames))
    /\ Context.takeaway_rate
         = Ratio(Cardinality(TurnoverPlays(FALSE)),
                 Cardinality(QualifyingGames))

\* One earlier game whose only play is a turnover of the team with a null
\* yards_gained: the rate is 0/1
C20_Witness ==
  /\ ~IsNone(result)
  /\ QualifyingGames = {"S1"}
  /\ Len(plays) = 1
  /\ plays[1].possession_team_id = StatTeam
  /\ plays[1].is_turnover = Some(TRUE)
  /\ plays[1].yards_gained = None
  /\ Context.turnover_rate = Ratio(0, 1)

\* ---------------------------------------------------------------------
\* SpecSeason: saves of the games of a season, in any order, re-saves
\* with another date or score included
\* ---------------------------------------------------------------------

MaxDay == 2

SeasonGame(id, day, season, home_score) ==
  [Game(id, None, None, <<>>) EXCEPT
     !.game_info.date = day,
     !.game_info.season = season,
     !.teams.home_score_total = home_score,
     !.teams.away_score_total = 17]

SeasonGames ==
  {SeasonGame(id, day, 2024, home_score) :
     id \in {"G1", "G2"}, day \in 1..MaxDay, home_score \in {10, 24}}
  \cup {SeasonGame("G2", 1, 2023, 24)}

InitSeason ==
  /\ games = EmptyFunction
  /\ plays = <<>>
  /\ players = EmptyFunction
  /\ game \in SeasonGames
  /\ last_call = None
  /\ outcome = "none"
  /\ repeat = FALSE
  /\ result = None
  /\ connections = <<>>
  /\ write_lock = None
  /\ scrape = None

SaveSeasonGame == \E g \in SeasonGames : save_game(g)

NextSeason == SaveGame \/ SaveSeasonGame

SpecSeason == InitSeason /\ [][NextSeason]_vars

\* The game of the latest save and its stored row
Saved == Val(last_call)

SavedRow == games[Saved.game_info.id]

\* The other stored games of a team in the season of the saved game,
\* dated before it
EarlierGames(team) ==
  {id \in DOMAIN games \ {Saved.game_info.id} :
     /\ team \in {games[id].home_team_id, games[id].away_team_id}
     /\ games[id].season = Saved.game_info.season
     /\ games[id].date < Saved.game_info.date}

\* The statistics of a team as the claim has them: over its earlier
\* games, the zero defaults when there is none
SeasonToDate(stats, team) ==
  IF EarlierGames(team) = {} THEN stats = NoTeamStats
  ELSE /\ stats.points_per_game
            = Ratio(SumPoints(games, EarlierGames(team), team, TRUE),
                    Cardinality(EarlierGames(team)))
       /\ stats.points_allowed_per_game
            = Ratio(SumPoints(games, EarlierGames(team), team, FALSE),
                    Cardinality(EarlierGames(team)))

\* C21: the season-to-date statistics written by save_game(g) come only
\* from stored games of the same season dated strictly before g: the row
\* of g itself (on a re-save) and the games dated on or after g never
\* contribute, and with no earlier game every statistic is its zero
\* default.
C21_OnlyEarlierGames ==
  (~IsNone(last_call) /\ outcome = "returned") =>
    /\ SeasonToDate(SavedRow.statistics.home_team, Saved.teams.home_id)
    /\ SeasonToDate(SavedRow.statistics.away_team, Saved.teams.away_id)

\* A game is the only one stored, was saved again with a later date, and
\* its statistics count one game
C21_Witness ==
  /\ ~IsNone(last_call)
  /\ outcome = "returned"
  /\ DOMAIN games = {"G1"}
  /\ Saved.game_info.date = 2
  /\ SavedRow.statistics.home_team.points_per_game.count = 1
  /\ SavedRow.statistics.home_team.points_per_game.total
       = Saved.teams.home_score_total

\* ---------------------------------------------------------------------
\* SpecForm: the statistics of a team over stores of up to MaxFormGames
\* earlier games, one a day
\* ---------------------------------------------------------------------

MaxFormGames == 6

\* <<home_team_id, away_team_id, home_score_total, away_score_total>>
FormKinds ==
  {<<"HOME", "AWAY", 24, 17>>, <<"AWAY", "HOME", 31, 10>>,
   <<"HOME", "THIRD", 13, 20>>}

FormStore(kinds) ==
  [id \in {MeetingIds[day] : day \in DOMAIN kinds} |->
     MeetingRow(DayOf(id), kinds[DayOf(id)])]

FormStores == {FormStore(kinds) : kinds \in ListsUpTo(FormKinds, MaxFormGames)}

FormInputs ==
  {[Game("R1", None, None, <<>>) EXCEPT !.game_info.date = day] :
     day \in 1..(MaxFormGames + 1)}

InitForm ==
  /\ games \in FormStores
  /\ plays = <<>>
  /\ players = <<>>
  /\ game \in FormInputs
  /\ last_call = None
  /\ outcome = "none"
  /\ repeat = FALSE
  /\ result = None
  /\ connections = <<>>
  /\ write_lock = None
  /\ scrape = None

SpecForm == InitForm /\ [][NextTeamStats]_vars

\* The `span` latest qualifying earlier games of the team
LatestQualifying(span) ==
  {id \in QualifyingGames :
     Cardinality({j \in QualifyingGames : games[j].date > games[id].date})
       < span}

\* The points of the team (of its opponent) in a set of stored games
RECURSIVE PointsIn(_, _)
PointsIn(ids, own) ==
  IF ids = {} THEN 0
  ELSE (IF own
        THEN PointsOf(StatTeam, games[CHOOSE id \in ids : TRUE])
        ELSE games[CHOOSE id \in ids : TRUE].home_score_total
               + games[CHOOSE id \in ids : TRUE].away_score_total
               - PointsOf(StatTeam, games[CHOOSE id \in ids : TRUE]))
       + PointsIn(ids \ {CHOOSE id \in ids : TRUE}, own)

\* The games of a set that the team won
WinsIn(ids) ==
  Cardinality({id \in ids :
                 2 * PointsOf(StatTeam, games[id])
                   > games[id].home_score_total + games[id].away_score_total})

\* wins, points per game and points allowed of the latest `span` games,
\* zero with fewer than `span` games
FormIs(span, wins, points_per_game, points_allowed) ==
  IF Cardinality(QualifyingGames) >= span
  THEN /\ wins = WinsIn(LatestQualifying(span))
       /\ points_per_game = Ratio(PointsIn(LatestQualifying(span), TRUE), span)
       /\ points_allowed = Ratio(PointsIn(LatestQualifying(span), FALSE), span)
  ELSE /\ wins = 0
       /\ points_per_game = Ratio(0, 1)
       /\ points_allowed = Ratio(0, 1)

\* C22: the last3_* (last5_*) fields come from exactly the 3 (5) latest
\* earlier games when the team has at least 3 (5) qualifying earlier games
\* and otherwise stay at 0 / 0.0, while the season averages are computed
\* from the games there are.
C22_RecentForm ==
  ~IsNone(result) =>
    /\ FormIs(3, Context.last3_wins, Context.last3_points_per_game,
              Context.last3_points_allowed)
    /\ FormIs(5, Context.last5_wins, Context.last5_points_per_game,
              Context.last5_points_allowed)
    /\ QualifyingGames # {} =>
         /\ Context.points_per_game
              = Ratio(PointsIn(QualifyingGames, TRUE),
                      Cardinality(QualifyingGames))
         /\ Context.points_allowed_per_game
              = Ratio(PointsIn(QualifyingGames, FALSE),
                      Cardinality(QualifyingGames))

\* Six earlier games of the home team, the oldest one lost and the five
\* latest won; and four earlier games, which give a last3 and no last5
C22_Witness ==
  /\ ~IsNone(result)
  /\ StatTeam = "HOME"
  /\ Cardinality(QualifyingGames) = 6
  /\ games["M01"].home_score_total = 13
  /\ Context.last5_wins = 5
  /\ Context.last3_wins = 3
  /\ Context.points_per_game = Ratio(133, 6)

\* ---------------------------------------------------------------------
\* SpecScript: _calculate_game_script_features over the scores and the
\* quarters, overtime included
\* ---------------------------------------------------------------------

MaxScore == 30

ScriptGames ==
  {Game("S1", None, None,
        Plays(<<Template(team,
                  Some(PlaySummary(PlayDetails(quarter, <<"4", ":", "0", "0">>,
                                               home_score, visitor_score,
                                               25, Timestamp(0)),
                                   team, <<>>, <<>>)))>>)) :
     team \in TeamIds, quarter \in 1..MaxQuarter,
     home_score \in 0..MaxScore, visitor_score \in 0..MaxScore}

InitScript ==
  /\ games = EmptyFunction
  /\ plays = <<>>
  /\ players = <<>>
  /\ game \in ScriptGames
  /\ last_call = None
  /\ outcome = "none"
  /\ repeat = FALSE
  /\ result = None
  /\ connections = <<>>
  /\ write_lock = None
  /\ scrape = None

\* self._calculate_game_script_features(play_details, current_play)
CalculateGameScriptFeatures ==
  /\ result' = Some([current_play_index |-> 0,
                     context |-> calculate_game_script_features(
                                   Details(At(game.plays, 0)),
                                   At(game.plays, 0))])
  /\ UNCHANGED <<games, plays, players, game, last_call, outcome, repeat,
                 connections, write_lock, scrape>>

NextScript == CalculateGameScriptFeatures

SpecScript == InitScript /\ [][NextScript]_vars

\* C23: for every score pair and every quarter from 1 on, overtime
\* included, game_competitive_index = 0.7 max(0, 1 - |differential|/28)
\* + 0.3 min(quarter/4, 1) lies in [0, 1]. The index is kept in 280ths.
C23_CompetitiveIndexInUnitInterval ==
  ~IsNone(result) =>
    /\ Context.game_competitive_index >= 0
    /\ Context.game_competitive_index <= 280
    /\ Context.game_competitive_index
         = 7 * (IF Abs(Details(At(game.plays, 0)).home_score
                         - Details(At(game.plays, 0)).visitor_score) >= 28
                THEN 0
                ELSE 28 - Abs(Details(At(game.plays, 0)).home_score
                                - Details(At(game.plays, 0)).visitor_score))
           + 21 * (IF Quarter >= 4 THEN 4 ELSE Quarter)

\* An overtime play of a tied game: the index is 1; and a play of the
\* first quarter 30 points apart
C23_Witness ==
  /\ ~IsNone(result)
  /\ Quarter = 5
  /\ Details(At(game.plays, 0)).home_score
       = Details(At(game.plays, 0)).visitor_score
  /\ Context.game_competitive_index = 280

\* The derived context of the play of a stored row, from the saved game
\* alone
DerivedAlone(row) ==
  calculate_game_context_features(LastGame.plays, row.play_id - 1,
                                  InputPlay(row), LastGame.game_info)

RowDefenders(row) == DefensivePlayers(Val(InputPlay(row).summary))

\* How many of them are of a position group
RowInGroup(row, position_group) ==
  Cardinality({k \in 1..Len(RowDefenders(row)) :
                 RowDefenders(row)[k].position_group = position_group})

\* C25: for every play saved through save_game that has a non-empty
\* defensive personnel list, the stored defensive_dl_count,
\* defensive_lb_count and defensive_db_count are the numbers of players of
\* the defending side (the away list when home_is_offense, else the home
\* list) whose position group is DL, LB and DB, and defensive_package and
\* defensive_formation are derived from those counts.
C25_StoredDefensiveCounts ==
  \A i \in 1..Len(plays) :
    (/\ ~IsNone(last_call) /\ outcome = "returned" /\ LastGame.plays # <<>>
     /\ plays[i].game_id = LastId
     /\ ~IsNone(plays[i].details)
     /\ RowDefenders(plays[i]) # <<>>)
    => /\ Val(plays[i].details).defensive_dl_count = RowInGroup(plays[i], "DL")
       /\ Val(plays[i].details).defensive_lb_count = RowInGroup(plays[i], "LB")
       /\ Val(plays[i].details).defensive_db_count = RowInGroup(plays[i], "DB")
       /\ Val(plays[i].details).defensive_package
            = DefensivePackage(RowInGroup(plays[i], "DB"))
       /\ Val(plays[i].details).defensive_formation
            = DefensiveFormation(RowInGroup(plays[i], "DL"),
                                 RowInGroup(plays[i], "LB"))

\* A stored play of the home team against a defence of one safety, whose
\* stored defensive_db_count is 0
C25_Witness ==
  /\ ~IsNone(last_call)
  /\ outcome = "returned"
  /\ LastGame.plays # <<>>
  /\ \E i \in 1..Len(plays) :
       /\ plays[i].game_id = LastId
       /\ ~IsNone(plays[i].details)
       /\ plays[i].possession_team_id = "HOME"
       /\ RowDefenders(plays[i]) = <<AwayPlayer>>
       /\ Val(plays[i].details).defensive_db_count = 0

\* C26: after every successful save_game(g) the play rows stored for the
\* id of g are exactly the plays of g, one row per input play, with or
\* without a summary, and no row of an earlier save of that id remains;
\* also when g.plays is empty.
C26_RowsAreThePlaysOfTheGame ==
  (~IsNone(last_call) /\ outcome = "returned")
  => /\ Len(PlaysOf(plays, LastId)) = Len(LastGame.plays)
     /\ \A k \in 1..Len(LastGame.plays) :
          /\ PlaysOf(plays, LastId)[k].play_id = LastGame.plays[k].play_id
          /\ PlaysOf(plays, LastId)[k].possession_team_id
               = LastGame.plays[k].possession_team_id
          /\ IsNone(PlaysOf(plays, LastId)[k].details)
               = ~HasSummary(LastGame.plays[k])

\* A game without plays was saved over an earlier capture of its id, and
\* the row of the earlier capture is still stored
C26_Witness ==
  /\ ~IsNone(last_call)
  /\ outcome = "returned"
  /\ LastGame.plays = <<>>
  /\ Len(PlaysOf(plays, LastId)) = 1

\* ---------------------------------------------------------------------
\* SpecWorkers: two worker processes (scrape_single_game) save two games
\* at the same time, each through its own session on the one SQLite file
\* ("sqlite:///" + db_path, default arguments). The statements of a
\* save are the steps; SELECTs take no lasting lock, the first DELETE,
\* INSERT or UPDATE of a transaction takes the write lock of the file and
\* the COMMIT or ROLLBACK gives it back. A statement that finds the lock
\* taken waits, and fails with "database is locked" once the busy timeout
\* of the driver has run out.
\* ---------------------------------------------------------------------

Workers == {"A", "B"}

WorkerGameId(w) == IF w = "A" THEN "GA" ELSE "GB"

\* The personnel of the one play of a worker's game: the shared player,
\* alone or with another one
WorkerPersonnel == {<<HomePlayer>>, <<HomePlayer, AwayPlayer>>}

WorkerGame(w, personnel) ==
  Game(WorkerGameId(w), Venue("OPEN"), None,
       Plays(<<Template("HOME",
                 Some(PlaySummary(PlayDetails(1, <<"4", ":", "0", "0">>, 0, 0, 25,
                                              Timestamp(0)),
                                  "HOME", personnel, <<>>)))>>))

\* A session before its first statement
Connection(g) ==
  [pc |-> "start", game |-> g, db_game |-> None, existing |-> {},
   new_players |-> <<>>, outcome |-> "none"]

InitWorkers ==
  /\ games = EmptyFunction
  /\ plays = <<>>
  /\ players = EmptyFunction
  /\ game \in {WorkerGame("A", <<HomePlayer>>)}
  /\ last_call = None
  /\ outcome = "none"
  /\ repeat = FALSE
  /\ result = None
  /\ connections \in {[w \in Workers |-> Connection(WorkerGame(w, personnel[w]))] :
                        personnel \in [Workers -> WorkerPersonnel]}
  /\ write_lock = None
  /\ scrape = None

\* "except Exception: session.rollback(); raise": the worker's save fails
Raised(w) ==
  [connections EXCEPT ![w].pc = "done", ![w].outcome = "raised"]

\* "db_game = session.query(DBGame).filter_by(id=...).first()", the column
\* updates and the historical statistics: reads, no lock
QueryGame(w) ==
  /\ connections[w].pc = "start"
  /\ connections' = [connections EXCEPT
                       ![w].pc = "delete",
                       ![w].db_game = Some(GameRow(Store, connections[w].game))]
  /\ UNCHANGED <<games, plays, players, game, last_call, outcome, repeat,
                 result, write_lock, scrape>>

\* "session.query(DBPlay).filter_by(game_id=db_game.id).delete()": the first
\* write of the transaction takes the write lock
DeleteStoredPlays(w) ==
  /\ connections[w].pc = "delete"
  /\ write_lock = None
  /\ write_lock' = Some(w)
  /\ connections' = [connections EXCEPT ![w].pc = "select"]
  /\ UNCHANGED <<games, plays, players, game, last_call, outcome, repeat,
                 result, scrape>>

\* The same statement while another process holds the write lock beyond
\* the busy timeout: OperationalError "database is locked"
BusyTimeout(w) ==
  /\ connections[w].pc = "delete"
  /\ write_lock # None
  /\ connections' = Raised(w)
  /\ UNCHANGED <<games, plays, players, game, last_call, outcome, repeat,
                 result, write_lock, scrape>>

\* "existing_players = session.query(DBPlayer).filter(
\* DBPlayer.nfl_id.in_(player_ids)).all()"
SelectExistingPlayers(w) ==
  /\ connections[w].pc = "select"
  /\ connections' =
       [connections EXCEPT
          ![w].pc = "insert",
          ![w].existing =
            {id \in DOMAIN players :
               \E i \in 1..Len(AllPlayers(connections[w].game.plays)) :
                 AllPlayers(connections[w].game.plays)[i].nfl_id = id}]
  /\ UNCHANGED <<games, plays, players, game, last_call, outcome, repeat,
                 result, write_lock, scrape>>

\* "if player.nfl_id not in existing_player_ids: ... new_players.append"
PlayersToInsert(w) ==
  SelectSeq(AllPlayers(connections[w].game.plays),
            LAMBDA p : p.nfl_id \notin connections[w].existing)

\* The primary key nfl_id or the UNIQUE gsis_id rejects the insert
InsertRejected(new_players) ==
  \/ \E i \in 1..Len(new_players) : new_players[i].nfl_id \in DOMAIN players
  \/ GsisConflict(new_players, players)

\* "session.bulk_save_objects(new_players)"
BulkSavePlayers(w) ==
  /\ connections[w].pc = "insert"
  /\ IF InsertRejected(PlayersToInsert(w))
     THEN /\ connections' = Raised(w)
          /\ write_lock' = None
     ELSE /\ connections' = [connections EXCEPT
                               ![w].pc = "commit",
                               ![w].new_players = PlayersToInsert(w)]
          /\ UNCHANGED write_lock
  /\ UNCHANGED <<games, plays, players, game, last_call, outcome, repeat,
                 result, scrape>>

\* The rows of the plays, then "session.commit()": the work of the
\* transaction becomes the store and the write lock is given back
CommitSave(w) ==
  /\ connections[w].pc = "commit"
  /\ games' = WithGame(Store, Val(connections[w].db_game)).games
  /\ plays' = AddPlays(DeletePlays(plays, connections[w].game.game_info.id),
                       connections[w].game.game_info.id,
                       connections[w].game.plays, 0,
                       connections[w].game.game_info).plays
  /\ players' = InsertPlayers(connections[w].new_players,
                              UpdatePlayers(AllPlayers(connections[w].game.plays),
                                            players))
  /\ write_lock' = None
  /\ connections' = [connections EXCEPT ![w].pc = "done",
                                        ![w].outcome = "returned"]
  /\ UNCHANGED <<game, last_call, outcome, repeat, result, scrape>>

NextWorkers ==
  \E w \in Workers :
    \/ QueryGame(w)
    \/ DeleteStoredPlays(w)
    \/ BusyTimeout(w)
    \/ SelectExistingPlayers(w)
    \/ BulkSavePlayers(w)
    \/ CommitSave(w)

SpecWorkers == InitWorkers /\ [][NextWorkers]_vars

\* C27: when two workers concurrently run save_game for two different
\* game ids whose personnel share a player that is not yet stored, every
\* interleaving ends with both saves committed and exactly one row for
\* that player; neither save fails or is rolled back because of the other.
C27_BothSavesCommit ==
  /\ \A w \in Workers : connections[w].outcome # "raised"
  /\ (\A w \in Workers : connections[w].pc = "done")
       => /\ DOMAIN games = {WorkerGameId(w) : w \in Workers}
          /\ HomePlayer.nfl_id \in DOMAIN players

\* Both workers are done: the save of one is committed with the row of the
\* shared player, the save of the other was rolled back
C27_Witness ==
  /\ connections["A"].pc = "done"
  /\ connections["B"].pc = "done"
  /\ connections["A"].outcome = "returned"
  /\ connections["B"].outcome = "raised"
  /\ HomePlayer.nfl_id \in DOMAIN players
  /\ DOMAIN games = {"GA"}

\* ---------------------------------------------------------------------
\* SpecWeek: parallel_scrape_week and the exit of main. A task is one
\* call of executor.submit(scrape_single_game, item); it is queued, then
\* running in a process of the pool, then done with the success flag of
\* its result, then collected by the as_completed loop. scrape_single_game
\* catches every exception, so a task ends with success true or false.
\* ---------------------------------------------------------------------

MaxWeekGames == 3

MaxWorkers == 4

WeekIdNames == <<"W1", "W2", "W3", "W4", "W5", "W6">>

\* get_games_for_week: the game ids of a week, none twice; empty for a
\* week without games and when the request fails
WeekGameIds(count) == SubSeq(WeekIdNames, 1, count)

\* "executor.submit(scrape_single_game, item) for item in ..."
Submit(game_ids, pass) ==
  [i \in 1..Len(game_ids) |->
     [id |-> game_ids[i], pass |-> pass, state |-> "queued", success |-> FALSE]]

\* "ProcessPoolExecutor(max_workers=max_workers)" in the first pass,
\* "ProcessPoolExecutor(max_workers=max(1, max_workers // 2))" in the retry
PoolSize(pc, max_workers) ==
  IF pc = "first" THEN max_workers ELSE Max(1, max_workers \div 2)

Running(tasks) == {i \in 1..Len(tasks) : tasks[i].state = "running"}

\* The as_completed loop has seen every future and the "with" block of
\* the executor is left
PassOver(tasks) == \A i \in 1..Len(tasks) : tasks[i].state = "collected"

\* Every failed game submitted twice to the retry
RetryItemsTwice(failed_games) ==
  [i \in 1..(2 * Len(failed_games)) |->
     failed_games[((i - 1) % Len(failed_games)) + 1][1]]

\* "retry_items = [(game_id, scraper_config) for game_id, _ in
\* results['failed_games']]"
RetryItems(failed_games) ==
  [i \in 1..Len(failed_games) |-> failed_games[i][1]]

\* The body of the first as_completed loop
RecordFirstPass(results, game_id, success) ==
  IF success
  THEN [results EXCEPT !.success = @ + 1]
  ELSE [results EXCEPT !.failed = @ + 1,
                       !.failed_games = Append(@, <<game_id, "error">>)]

\* A retry that counts a success and leaves the failure counted
RecordRetryUncorrected(results, game_id, success) ==
  IF success THEN [results EXCEPT !.success = @ + 1] ELSE results

\* The body of the as_completed loop of the retry
RecordRetry(results, game_id, success) ==
  IF success
  THEN [results EXCEPT !.success = @ + 1,
                       !.failed = @ - 1,
                       !.failed_games = SelectSeq(@, LAMBDA e : e[1] # game_id)]
  ELSE results

InitWeek ==
  /\ games = EmptyFunction
  /\ plays = <<>>
  /\ players = EmptyFunction
  /\ game \in {WorkerGame("A", <<HomePlayer>>)}
  /\ last_call = None
  /\ outcome = "none"
  /\ repeat = FALSE
  /\ result = None
  /\ connections = <<>>
  /\ write_lock = None
  /\ scrape \in {[pc |-> "start", game_ids |-> WeekGameIds(count),
                  max_workers |-> max_workers, retry_failed |-> retry_failed,
                  tasks |-> <<>>, results |-> None, exit_code |-> None] :
                   count \in 0..MaxWeekGames, max_workers \in 1..MaxWorkers,
                   retry_failed \in BOOLEAN}

\* Lines 152-176: the early return for a week without game ids, or the
\* results dictionary and the submit of every work item
StartWeek ==
  /\ scrape.pc = "start"
  /\ scrape' =
       IF scrape.game_ids = <<>>
       THEN [scrape EXCEPT !.pc = "returned",
                           !.results = [total |-> 0, success |-> 0, failed |-> 0]]
       ELSE [scrape EXCEPT !.pc = "first",
                           !.tasks = Submit(scrape.game_ids, 1),
                           !.results = [total |-> Len(scrape.game_ids),
                                        success |-> 0, failed |-> 0,
                                        failed_games |-> <<>>]]
  /\ UNCHANGED <<games, plays, players, game, last_call, outcome, repeat,
                 result, connections, write_lock>>

\* A free process of the pool takes the oldest queued task
StartTask ==
  /\ scrape.pc \in {"first", "retry"}
  /\ Cardinality(Running(scrape.tasks)) < PoolSize(scrape.pc, scrape.max_workers)
  /\ \E i \in 1..Len(scrape.tasks) :
       /\ scrape.tasks[i].state = "queued"
       /\ \A j \in 1..(i - 1) : scrape.tasks[j].state # "queued"
       /\ scrape' = [scrape EXCEPT !.tasks[i].state = "running"]
  /\ UNCHANGED <<games, plays, players, game, last_call, outcome, repeat,
                 result, connections, write_lock>>

\* scrape_single_game returns (game_id, True, None) or (game_id, False, error)
FinishTask ==
  /\ \E i \in Running(scrape.tasks), success \in BOOLEAN :
       scrape' = [scrape EXCEPT !.tasks[i].state = "done",
                                !.tasks[i].success = success]
  /\ UNCHANGED <<games, plays, players, game, last_call, outcome, repeat,
                 result, connections, write_lock>>

\* One round of "for future in as_completed(...)": a done future is taken
CollectTask ==
  /\ \E i \in 1..Len(scrape.tasks) :
       /\ scrape.tasks[i].state = "done"
       /\ scrape' =
            [scrape EXCEPT
               !.tasks[i].state = "collected",
               !.results =
                 IF scrape.pc = "first"
                 THEN RecordFirstPass(scrape.results, scrape.tasks[i].id,
                                      scrape.tasks[i].success)
                 ELSE RecordRetry(scrape.results, scrape.tasks[i].id,
                                  scrape.tasks[i].success)]
  /\ UNCHANGED <<games, plays, players, game, last_call, outcome, repeat,
                 result, connections, write_lock>>

\* The first "with" block is left; "if retry_failed and
\* results['failed_games']" submits the retry items to a new executor
EndFirstPass ==
  /\ scrape.pc = "first"
  /\ PassOver(scrape.tasks)
  /\ scrape' =
       IF scrape.retry_failed /\ scrape.results.failed_games # <<>>
       THEN [scrape EXCEPT
               !.pc = "retry",
               !.tasks = scrape.tasks
                           \o Submit(RetryItems(scrape.results.failed_games), 2)]
       ELSE [scrape EXCEPT !.pc = "returned"]
  /\ UNCHANGED <<games, plays, players, game, last_call, outcome, repeat,
                 result, connections, write_lock>>

\* The "with" block of the retry is left; "return results"
EndRetry ==
  /\ scrape.pc = "retry"
  /\ PassOver(scrape.tasks)
  /\ scrape' = [scrape EXCEPT !.pc = "returned"]
  /\ UNCHANGED <<games, plays, players, game, last_call, outcome, repeat,
                 result, connections, write_lock>>

\* main: "sys.exit(0 if results['failed'] == 0 else 1)"
Exit ==
  /\ scrape.pc = "returned"
  /\ scrape' = [scrape EXCEPT
                  !.pc = "exited",
                  !.exit_code = Some(IF scrape.results.failed = 0 THEN 0 ELSE 1)]
  /\ UNCHANGED <<games, plays, players, game, last_call, outcome, repeat,
                 result, connections, write_lock>>

NextWeek ==
  \/ StartWeek
  \/ StartTask
  \/ FinishTask
  \/ CollectTask
  \/ EndFirstPass
  \/ EndRetry
  \/ Exit

SpecWeek == InitWeek /\ [][NextWeek]_vars

\* The tasks of a pass
TasksOf(pass) == {i \in 1..Len(scrape.tasks) : scrape.tasks[i].pass = pass}

\* The ids whose task of a pass ended without success
FailedIn(pass) ==
  {scrape.tasks[i].id : i \in {j \in TasksOf(pass) :
                                 /\ scrape.tasks[j].state \in {"done", "collected"}
                                 /\ ~scrape.tasks[j].success}}

\* C28: in parallel_scrape_week, for a week whose game-id list has no
\* duplicates, no two tasks for the same game id are ever running at the
\* same time: each id is submitted once in the first pass, and the retry
\* starts only after every first-pass task has completed and submits each
\* failed id once.
C28_OneTaskPerGameAtATime ==
  /\ \A i \in Running(scrape.tasks), j \in Running(scrape.tasks) :
       scrape.tasks[i].id = scrape.tasks[j].id => i = j
  /\ scrape.pc \in {"first", "retry"}
       => \A k \in 1..Len(scrape.game_ids) :
            Cardinality({i \in TasksOf(1) :
                           scrape.tasks[i].id = scrape.game_ids[k]}) = 1
  /\ TasksOf(2) # {}
       => /\ \A i \in TasksOf(1) : scrape.tasks[i].state = "collected"
          /\ {scrape.tasks[i].id : i \in TasksOf(2)} = FailedIn(1)
  /\ \A i \in TasksOf(2), j \in TasksOf(2) :
       scrape.tasks[i].id = scrape.tasks[j].id => i = j

\* The retry of two failed games is running in two processes at once, a
\* third game having succeeded in the first pass
C28_Witness ==
  /\ scrape.pc = "retry"
  /\ Cardinality(TasksOf(1)) = 3
  /\ Cardinality(FailedIn(1)) = 2
  /\ Cardinality(Running(scrape.tasks) \cap TasksOf(2)) = 2

\* What the claim says of the returned summary, for the summaries that
\* have a failed_games list
SummaryAddsUp ==
  /\ scrape.results.success + scrape.results.failed = scrape.results.total
  /\ scrape.results.failed = Len(scrape.results.failed_games)
  /\ {scrape.results.failed_games[i][1] :
        i \in 1..Len(scrape.results.failed_games)}
       = IF scrape.retry_failed THEN FailedIn(1) \cap FailedIn(2) ELSE FailedIn(1)
  /\ \A k \in 1..Len(scrape.game_ids) :
       Cardinality({i \in 1..Len(scrape.tasks) :
                      scrape.tasks[i].id = scrape.game_ids[k]}) <= 2
  /\ scrape.pc = "exited"
       => (scrape.exit_code = Some(0) <=> scrape.results.failed = 0)

\* C29 as stated: when parallel_scrape_week returns for a week with
\* distinct game ids, success + failed = total and failed = the length of
\* failed_games, failed_games holding exactly the ids that failed in the
\* first pass and (when retry is enabled) failed again in their single
\* retry; every game is attempted at most twice and the exit code is 0
\* exactly when failed = 0.
C29_SummaryAsStated ==
  scrape.pc \in {"returned", "exited"}
    => /\ "failed_games" \in DOMAIN scrape.results
       /\ SummaryAddsUp

\* C29 amended: the statement holds for a week with at least one game id;
\* for a week without game ids the summary is {total: 0, success: 0,
\* failed: 0} with no failed_games entry, and the exit code is 0.
C29_SummaryOfTheWeek ==
  scrape.pc \in {"returned", "exited"}
    => IF scrape.game_ids = <<>>
       THEN /\ scrape.results = [total |-> 0, success |-> 0, failed |-> 0]
            /\ scrape.pc = "exited" => scrape.exit_code = Some(0)
       ELSE /\ "failed_games" \in DOMAIN scrape.results
            /\ SummaryAddsUp

\* Three games with retry: one succeeded at once, one at its retry, one
\* failed twice; the process ends with exit code 1
C29_Witness ==
  /\ scrape.pc = "exited"
  /\ scrape.retry_failed
  /\ Len(scrape.game_ids) = 3
  /\ Cardinality(FailedIn(1)) = 2
  /\ Cardinality(FailedIn(2)) = 1
  /\ scrape.results.success = 2
  /\ scrape.results.failed = 1
  /\ scrape.exit_code = Some(1)

\* ---------------------------------------------------------------------
\* SpecContext: _calculate_game_context_features called on its own for a
\* play of a list, the early return for a play without a summary included
\* ---------------------------------------------------------------------

MaxContextPlays == 3

MaxLaterPlays == 2

\* "result = {...: None}" as the function returns it for a play without a
\* summary
NoGameContext ==
  [drive_number |-> None, drive_play_number |-> None,
   drive_start_yardline |-> None, drive_time_of_possession |-> None,
   drive_plays_so_far |-> None,
   is_winning_team |-> None, is_losing_team |-> None,
   is_comeback_situation |-> None, is_blowout_situation |-> None,
   game_competitive_index |-> None,
   possessing_team_last_score |-> None, opposing_team_last_score |-> None,
   possessing_team_turnovers |-> None, opposing_team_turnovers |-> None,
   turnover_margin |-> None,
   possessing_team_timeouts |-> None, opposing_team_timeouts |-> None,
   timeout_advantage |-> None,
   weather_impact_score |-> None, is_indoor_game |-> None,
   field_position_category |-> None, yards_from_own_endzone |-> None,
   yards_from_opponent_endzone |-> None]

GameContextFeatures(game_plays, current_play_index, game_info) ==
  IF ~HasSummary(At(game_plays, current_play_index))
  THEN NoGameContext
  ELSE calculate_game_context_features(game_plays, current_play_index,
                                       At(game_plays, current_play_index),
                                       game_info)

\* a plain play and a scoring play that changes possession, later on the
\* field and on the clock
ContextSummaries ==
  {Some(PlaySummary(PlayDetails(1, <<"4", ":", "0", "0">>, 0, 0, 25, Timestamp(0)),
                    "HOME", <<>>, <<>>)),
   Some(PlaySummary([PlayDetails(1, <<"3", ":", "0", "0">>, 7, 0, 40, Timestamp(30))
                       EXCEPT !.is_scoring = TRUE,
                              !.is_change_of_possession = TRUE],
                    "HOME", <<>>, <<>>))}

ContextTemplates ==
  {Template(team, summary) :
     team \in TeamIds, summary \in {None} \cup ContextSummaries}

ContextGames ==
  {Game("X1", Venue(roof_type), None, Plays(templates)) :
     roof_type \in {"OPEN", "DOME"},
     templates \in ListsUpTo(ContextTemplates, MaxContextPlays) \ {<<>>}}

InitContext ==
  /\ games = EmptyFunction
  /\ plays = <<>>
  /\ players = <<>>
  /\ game \in ContextGames
  /\ last_call = None
  /\ outcome = "none"
  /\ repeat = FALSE
  /\ result = None
  /\ connections = <<>>
  /\ write_lock = None
  /\ scrape = None

\* self._calculate_game_context_features(plays, play_index, play,
\* game_info)
CalculateGameContextFeatures ==
  /\ \E current_play_index \in 0..(Len(game.plays) - 1) :
       result' = Some([current_play_index |-> current_play_index,
                       context |-> GameContextFeatures(game.plays,
                                     current_play_index, game.game_info)])
  /\ UNCHANGED <<games, plays, players, game, last_call, outcome, repeat,
                 connections, write_lock, scrape>>

NextContext == CalculateGameContextFeatures

SpecContext == InitContext /\ [][NextContext]_vars

\* The plays 0..k of the list followed by other later plays
WithLaterPlays(game_plays, k, templates) ==
  SubSeq(game_plays, 1, k + 1)
    \o [i \in 1..Len(templates) |->
          [Plays(templates)[i] EXCEPT !.play_id = k + 1 + i,
                                      !.sequence = k + 1 + i]]

\* C30: the derived context of the play at index k depends only on plays
\* 0..k and the game metadata: changing, removing or appending plays after
\* index k leaves every drive, game-script, momentum, timeout, weather and
\* field-position value of play k unchanged.
C30_ContextOfPrefix ==
  ~IsNone(result)
  => \A templates \in ListsUpTo(ContextTemplates, MaxLaterPlays) :
       GameContextFeatures(WithLaterPlays(game.plays, CurrentIndex, templates),
                           CurrentIndex, game.game_info) = Context

\* The context of the first of three plays, the later two being scoring
\* plays that change possession: no turnover and no score is counted
C30_Witness ==
  /\ ~IsNone(result)
  /\ CurrentIndex = 0
  /\ Len(game.plays) = 3
  /\ HasSummary(At(game.plays, 0))
  /\ \A i \in 1..2 : /\ HasSummary(At(game.plays, i))
                     /\ Details(At(game.plays, i)).is_scoring
                     /\ Details(At(game.plays, i)).is_change_of_possession
  /\ Context.possessing_team_turnovers = 0
  /\ Context.opposing_team_turnovers = 0
  /\ Context.drive_play_number = 1

====
